---------------------------- MODULE Spec2Model ----------------------------
(***************************************************************************)
(* Trust Layer of doc-manager: the production-safety layer                 *)
(* (src/core/productionSafety.ts), the data contracts, the host stores     *)
(* that gate their writes on it (src/stores/documentStore.ts) and the      *)
(* observability engine (src/core/observability.ts).                       *)
(*                                                                         *)
(* Strings are sequences of one-character strings, so that String(),       *)
(* trim(), toLowerCase() and the regular expressions of                    *)
(* PLACEHOLDER_PATTERNS are computed character by character.  Indices into *)
(* a string are 0-based where the code's are (lastIndex); a "position" of  *)
(* the matcher is the 1-based index of the next character to read.         *)
(***************************************************************************)
EXTENDS Integers, Sequences, FiniteSets

(***************************************************************************)
(* Characters                                                              *)
(***************************************************************************)
UpperChars ==
  <<"A","B","C","D","E","F","G","H","I","J","K","L","M",
    "N","O","P","Q","R","S","T","U","V","W","X","Y","Z">>
LowerChars ==
  <<"a","b","c","d","e","f","g","h","i","j","k","l","m",
    "n","o","p","q","r","s","t","u","v","w","x","y","z">>
DigitChars == {"0","1","2","3","4","5","6","7","8","9"}
\* \s of a JavaScript regular expression, and the characters trim() strips
SpaceChars == {" ", "\t", "\n", "\r", "\f"}
LineTerminators == {"\n", "\r"}
\* \w
WordChars ==
  {UpperChars[k] : k \in 1..26} \cup {LowerChars[k] : k \in 1..26}
    \cup DigitChars \cup {"_"}

\* String.prototype.toLowerCase on one character
LowerChar(c) ==
  IF \E k \in 1..26 : UpperChars[k] = c
  THEN LowerChars[CHOOSE k \in 1..26 : UpperChars[k] = c]
  ELSE c

\* String.prototype.toLowerCase
ToLowerCase(s) == [k \in 1..Len(s) |-> LowerChar(s[k])]

RECURSIVE TrimStart(_)
TrimStart(s) ==
  IF s # <<>> /\ Head(s) \in SpaceChars THEN TrimStart(Tail(s)) ELSE s

RECURSIVE TrimEnd(_)
TrimEnd(s) ==
  IF s # <<>> /\ s[Len(s)] \in SpaceChars
  THEN TrimEnd(SubSeq(s, 1, Len(s) - 1)) ELSE s

\* String.prototype.trim
Trim(s) == TrimEnd(TrimStart(s))

(***************************************************************************)
(* Regular expressions: a backtracking matcher in the order of ECMAScript  *)
(* (alternatives left to right, greedy quantifiers longest first).         *)
(* Match(r, s, p, ic) is the sequence of positions at which a match of r   *)
(* that starts at position p can end, in the order the engine tries them;  *)
(* ic is the i flag.                                                       *)
(***************************************************************************)
Chr(c)   == [t |-> "chr", c |-> c]
Cls(S)   == [t |-> "cls", s |-> S]
AnyChar  == [t |-> "any"]
Cat(rs)  == [t |-> "cat", a |-> rs]
Alt(rs)  == [t |-> "alt", a |-> rs]
Star(r)  == [t |-> "star", r |-> r]
Lazy(r)  == [t |-> "lazy", r |-> r]
Opt(r)   == [t |-> "opt", r |-> r]
Bol      == [t |-> "bol"]
Eol      == [t |-> "eol"]
Plus(r)  == Cat(<<r, Star(r)>>)
Lit(w)   == Cat([k \in 1..Len(w) |-> Chr(w[k])])

RECURSIVE Match(_, _, _, _), MatchCat(_, _, _, _, _), MatchAlt(_, _, _, _, _),
          MatchStar(_, _, _, _, _), MatchFrom(_, _, _, _, _),
          StarEnds(_, _, _, _, _, _), EndsAfter(_, _, _, _)

Match(r, s, p, ic) ==
  CASE r.t = "chr" ->
         IF p <= Len(s) /\ (IF ic THEN LowerChar(s[p]) = LowerChar(r.c)
                                  ELSE s[p] = r.c)
         THEN <<p + 1>> ELSE <<>>
    [] r.t = "cls" -> IF p <= Len(s) /\ s[p] \in r.s THEN <<p + 1>> ELSE <<>>
    [] r.t = "any" ->
         IF p <= Len(s) /\ s[p] \notin LineTerminators THEN <<p + 1>> ELSE <<>>
    [] r.t = "bol" -> IF p = 1 THEN <<p>> ELSE <<>>
    [] r.t = "eol" -> IF p = Len(s) + 1 THEN <<p>> ELSE <<>>
    [] r.t = "cat" -> MatchCat(r.a, 1, s, <<p>>, ic)
    [] r.t = "alt" -> MatchAlt(r.a, 1, s, p, ic)
    [] r.t = "opt" -> Match(r.r, s, p, ic) \o <<p>>
    [] r.t = "star" -> MatchStar(r.r, s, p, ic, TRUE)
    [] r.t = "lazy" -> MatchStar(r.r, s, p, ic, FALSE)

\* the ends of r started at each end in es[j..], in order
MatchFrom(r, s, es, j, ic) ==
  IF j > Len(es) THEN <<>>
  ELSE Match(r, s, es[j], ic) \o MatchFrom(r, s, es, j + 1, ic)

\* es are the ends of rs[1..k-1]; the ends of the whole of rs
MatchCat(rs, k, s, es, ic) ==
  IF k > Len(rs) \/ es = <<>> THEN es
  ELSE MatchCat(rs, k + 1, s, MatchFrom(rs[k], s, es, 1, ic), ic)

MatchAlt(rs, k, s, p, ic) ==
  IF k > Len(rs) THEN <<>>
  ELSE Match(rs[k], s, p, ic) \o MatchAlt(rs, k + 1, s, p, ic)

\* the ends in later of the star restarted at each of es[j..], in order;
\* later[k] are the ends of the star started at position q + k
EndsAfter(later, q, es, j) ==
  IF j > Len(es) THEN <<>>
  ELSE later[es[j] - q] \o EndsAfter(later, q, es, j + 1)

\* the ends of the star started at each position from the end of s back to
\* p: those started at q are the ends of the star restarted where one more
\* r ends, and q itself, the longer first if greedy
StarEnds(r, s, p, ic, greedy, later) ==
  LET q == Len(s) + 1 - Len(later)
      once == SelectSeq(Match(r, s, q, ic), LAMBDA e : e > q)
      more == EndsAfter(later, q, once, 1)
  IN IF q < p THEN later
     ELSE StarEnds(r, s, p, ic, greedy,
                   <<IF greedy THEN more \o <<q>> ELSE <<q>> \o more>> \o later)

\* r* (greedy) or r*? (lazy); an iteration that consumes nothing is not repeated
MatchStar(r, s, p, ic, greedy) == StarEnds(r, s, p, ic, greedy, <<>>)[1]


(***************************************************************************)
(* PLACEHOLDER_PATTERNS (productionSafety.ts:89-118).  Every regular       *)
(* expression of the table carries the g flag, so each keeps a lastIndex   *)
(* between calls of test(); the table is a module constant, shared by      *)
(* every detector.                                                         *)
(***************************************************************************)
W_TODO == <<"T","O","D","O">>
W_FIXME == <<"F","I","X","M","E">>
W_XXX == <<"X","X","X">>
W_HACK == <<"H","A","C","K">>

\* /\/\/\s*WORD[:\s]|\/\*\*?\s*WORD[:\s]/gi
CommentMarker(word) ==
  Alt(<<Cat(<<Lit(<<"/","/">>), Star(Cls(SpaceChars)), Lit(word),
              Cls({":"} \cup SpaceChars)>>),
        Cat(<<Lit(<<"/","*">>), Opt(Chr("*")), Star(Cls(SpaceChars)), Lit(word),
              Cls({":"} \cup SpaceChars)>>)>>)

\* /(mock|test|dummy|fake|placeholder|sample).*data?/gi
RE_MOCK_VALUE ==
  Cat(<<Alt(<<Lit(<<"m","o","c","k">>), Lit(<<"t","e","s","t">>), Lit(<<"d","u","m","m","y">>), Lit(<<"f","a","k","e">>),
              Lit(<<"p","l","a","c","e","h","o","l","d","e","r">>), Lit(<<"s","a","m","p","l","e">>)>>),
        Star(AnyChar), Lit(<<"d","a","t">>), Opt(Chr("a"))>>)

\* /lorem\s+ipsum/gi
RE_LOREM_IPSUM == Cat(<<Lit(<<"l","o","r","e","m">>), Plus(Cls(SpaceChars)), Lit(<<"i","p","s","u","m">>)>>)

\* /(example@test\.com|test@example\.com|user@example)/gi
RE_EXAMPLE_EMAIL ==
  Alt(<<Lit(<<"e","x","a","m","p","l","e","@","t","e","s","t",".","c","o","m">>), Lit(<<"t","e","s","t","@","e","x","a","m","p","l","e",".","c","o","m">>), Lit(<<"u","s","e","r","@","e","x","a","m","p","l","e">>)>>)

\* /(555-?\d{4}|1-555-?\d{4})/g
RE_EXAMPLE_PHONE ==
  LET d == Cls(DigitChars)
  IN Alt(<<Cat(<<Lit(<<"5","5","5">>), Opt(Chr("-")), d, d, d, d>>),
           Cat(<<Lit(<<"1","-","5","5","5">>), Opt(Chr("-")), d, d, d, d>>)>>)

\* /^(default|change me|update this|enter \w+ here)$/gi
RE_DEFAULT_STRING ==
  Cat(<<Bol,
        Alt(<<Lit(<<"d","e","f","a","u","l","t">>), Lit(<<"c","h","a","n","g","e"," ","m","e">>), Lit(<<"u","p","d","a","t","e"," ","t","h","i","s">>),
              Cat(<<Lit(<<"e","n","t","e","r"," ">>), Plus(Cls(WordChars)), Lit(<<" ","h","e","r","e">>)>>)>>),
        Eol>>)

\* /^\s*$/g
RE_EMPTY_REQUIRED == Cat(<<Bol, Star(Cls(SpaceChars)), Eol>>)

\* /^null\s*$/gi
RE_NULL_FOR_REQUIRED == Cat(<<Bol, Lit(<<"n","u","l","l">>), Star(Cls(SpaceChars)), Eol>>)

\* PLACEHOLDER_VALUES
PLACEHOLDER_VALUES ==
  << <<"N","/","A">>, <<"T","B","D">>, <<"T","B","C">>, <<"T","o"," ","B","e"," ","D","e","t","e","r","m","i","n","e","d">>, <<"T","o"," ","B","e"," ","C","o","m","p","l","e","t","e","d">>,
     <<"<","p","l","a","c","e","h","o","l","d","e","r",">">>, <<"[","p","l","a","c","e","h","o","l","d","e","r","]">>, <<"{","{","p","l","a","c","e","h","o","l","d","e","r","}","}">> >>

\* Object.entries(PLACEHOLDER_PATTERNS): the keys in insertion order
PatternOrder ==
  <<"TODO", "FIXME", "XXX", "HACK", "MOCK_VALUE", "LOREM_IPSUM", "EXAMPLE_EMAIL",
    "EXAMPLE_PHONE", "DEFAULT_STRING", "PLACEHOLDER_VALUES", "EMPTY_REQUIRED",
    "NULL_FOR_REQUIRED">>

\* the keys whose value is a RegExp
RegExpNames == {PatternOrder[k] : k \in 1..Len(PatternOrder)} \ {"PLACEHOLDER_VALUES"}

PatternSource(name) ==
  CASE name = "TODO" -> CommentMarker(W_TODO)
    [] name = "FIXME" -> CommentMarker(W_FIXME)
    [] name = "XXX" -> CommentMarker(W_XXX)
    [] name = "HACK" -> CommentMarker(W_HACK)
    [] name = "MOCK_VALUE" -> RE_MOCK_VALUE
    [] name = "LOREM_IPSUM" -> RE_LOREM_IPSUM
    [] name = "EXAMPLE_EMAIL" -> RE_EXAMPLE_EMAIL
    [] name = "EXAMPLE_PHONE" -> RE_EXAMPLE_PHONE
    [] name = "DEFAULT_STRING" -> RE_DEFAULT_STRING
    [] name = "EMPTY_REQUIRED" -> RE_EMPTY_REQUIRED
    [] name = "NULL_FOR_REQUIRED" -> RE_NULL_FOR_REQUIRED

\* the i flag: every pattern but EXAMPLE_PHONE and EMPTY_REQUIRED has it
IgnoreCase(name) == name \notin {"EXAMPLE_PHONE", "EMPTY_REQUIRED"}

(***************************************************************************)
(* RegExp.prototype.test of a global regular expression (RegExpBuiltinExec *)
(* of ECMAScript): the search starts at lastIndex; a match leaves          *)
(* lastIndex at its end, a failure resets it to 0.                         *)
(***************************************************************************)
RECURSIVE RegExpTest(_, _, _, _), RegExpTestAt(_, _, _, _, _)
\* the attempt at index k gave the ends `ends`: success, or the next index
RegExpTestAt(ends, r, ic, s, k) ==
  IF ends # <<>> THEN [found |-> TRUE, lastIndex |-> Head(ends) - 1]
  ELSE RegExpTest(r, ic, s, k + 1)

RegExpTest(r, ic, s, lastIdx) ==
  IF lastIdx > Len(s) THEN [found |-> FALSE, lastIndex |-> 0]
  ELSE RegExpTestAt(Match(r, s, lastIdx + 1, ic), r, ic, s, lastIdx)


(***************************************************************************)
(* JavaScript values: undefined, null, booleans, numbers, strings, plain    *)
(* objects (their own enumerable entries, in insertion order) and arrays.  *)
(***************************************************************************)
Undefined == [k |-> "undefined", v |-> <<>>]
Null      == [k |-> "null", v |-> <<>>]
Bool(b)   == [k |-> "boolean", v |-> b]
Num(n)    == [k |-> "number", v |-> n]
Str(s)    == [k |-> "string", v |-> s]
\* es: a sequence of <<key, value>>
Obj(es)   == [k |-> "object", v |-> es]
Arr(xs)   == [k |-> "array", v |-> xs]

\* typeof x === 'object' && x !== null
IsObjectLike(x) == x.k \in {"object", "array"}

\* ToBoolean
Truthy(x) ==
  CASE x.k \in {"undefined", "null"} -> FALSE
    [] x.k = "boolean" -> x.v
    [] x.k = "number" -> x.v # 0
    [] x.k = "string" -> x.v # <<>>
    [] OTHER -> TRUE

\* the property keys of array indices
IndexKeys == <<"0", "1", "2", "3">>

\* Object.entries
Entries(x) ==
  CASE x.k = "object" -> x.v
    [] x.k = "array" -> [i \in 1..Len(x.v) |-> <<IndexKeys[i], x.v[i]>>]
    [] OTHER -> <<>>

\* obj[key]: the value of the last entry with that key, or undefined
Get(x, key) ==
  LET es == Entries(x)
      hits == {i \in 1..Len(es) : es[i][1] = key}
  IN IF hits = {} THEN Undefined
     ELSE es[CHOOSE i \in hits : \A j \in hits : j <= i][2]

RECURSIVE StringOf(_), JoinFrom(_, _)
\* Array.prototype.join(","): null and undefined elements give ""
JoinFrom(xs, i) ==
  IF i > Len(xs) THEN <<>>
  ELSE (IF i > 1 THEN <<",">> ELSE <<>>)
       \o (IF xs[i].k \in {"undefined", "null"} THEN <<>> ELSE StringOf(xs[i]))
       \o JoinFrom(xs, i + 1)

\* String(value)
StringOf(x) ==
  CASE x.k = "undefined" -> <<"u","n","d","e","f","i","n","e","d">>
    [] x.k = "null" -> <<"n","u","l","l">>
    [] x.k = "boolean" -> IF x.v THEN <<"t","r","u","e">> ELSE <<"f","a","l","s","e">>
    [] x.k = "string" -> x.v
    \* the numbers of the model have one digit
    [] x.k = "number" -> <<<<"0","1","2","3","4","5","6","7","8","9">>[x.v + 1]>>
    [] x.k = "object" -> <<"[","o","b","j","e","c","t"," ","O","b","j","e","c","t","]">>
    [] x.k = "array" -> JoinFrom(x.v, 1)


(***************************************************************************)
(* The inputs of the model: the strings and records handed to the safety   *)
(* layer.                                                                  *)
(***************************************************************************)
S_TBD    == <<"T","B","D">>
S_NA     == <<"N","/","A">>
S_tbd    == << " ", "t", "b", "d", " " >>
S_mock   == <<"m","o","c","k"," ","d","a","t","a">>
S_todo   == <<"/","/"," ","T","O","D","O",":"," ","x">>
S_Report == <<"R","e","p","o","r","t">>
S_empty  == << >>

InputStrings == {S_TBD, S_NA, S_tbd, S_mock, S_todo, S_Report, S_empty}

TitleRecord(s) == Obj(<< <<"title", Str(s)>> >>)
\* a Document of the host: { metadata: { title }, content }
DocumentRecord(title, content) ==
  Obj(<< <<"metadata", TitleRecord(title)>>, <<"content", Str(content)>> >>)
TagsRecord(tags) ==
  Obj(<< <<"title", Str(S_Report)>>,
         <<"tags", Arr([i \in 1..Len(tags) |-> Str(tags[i])])>> >>)

DataValues ==
  {Undefined, Null}
    \cup {Str(s) : s \in InputStrings}
    \cup {TitleRecord(s) : s \in InputStrings \ {S_empty}}
    \cup {DocumentRecord(S_TBD, S_Report), DocumentRecord(S_Report, S_Report),
          DocumentRecord(S_Report, S_mock)}
    \cup {TagsRecord(<<S_TBD>>), TagsRecord(<<S_TBD, S_Report>>),
          TagsRecord(<<S_Report, S_Report>>)}
    \cup {Arr(<<Str(S_TBD)>>), Arr(<<Str(S_Report), Null>>),
          Arr(<<TitleRecord(S_TBD), TitleRecord(S_Report)>>),
          Arr(<<DocumentRecord(S_TBD, S_Report)>>),
          Arr(<<Arr(<<Str(S_NA)>>), Str(S_mock)>>)}

Operations == {"save", "saveDocument"}

(***************************************************************************)
(* The records of the host stores (stores/documentStore.ts): the tasks,    *)
(* lists and documents its write paths build and hand to the safety layer. *)
(***************************************************************************)
\* the last second of the clock
MaxNow == 1

\* Date.prototype.toISOString of the clock: second t of the modelled minute
ToISOString(t) ==
  <<"2","0","2","6","-","1","1","-","0","1","T","0","0",":","0","0",":","0">> \o <<<<"0","1","2","3","4","5","6","7","8","9">>[t + 1]>>
    \o <<".","0","0","0","Z">>

\* values nanoid() returns, 21 characters of A-Za-z0-9_-: the ids addTask,
\* addList and createDocument draw
TaskNanoIds == {<<"V","1","S","t","G","X","R","8","_","Z","5","j","d","H","i","6","B","-","m","y","T">>}
ListNanoIds == {<<"U","a","k","g","b","_","J","5","m","9","g","-","0","J","D","M","b","c","J","q","L">>}
DocumentNanoIds == {<<"4","f","9","0","d","1","3","a","4","2","_","K","x","-","7","Q","m","Z","p","L","w">>}

S_default == <<"d","e","f","a","u","l","t">>
S_Work    == <<"W","o","r","k">>
S_newtask == <<"n","e","w"," ","t","a","s","k">>
S_color   == <<"#","3","b","8","2","f","6">>

\* a Task, its fields in the order addTask writes them
TaskValue(id, title, listId, completed, priority, createdAt, dueDate) ==
  Obj(<< <<"id", Str(id)>>, <<"title", Str(title)>>, <<"listId", Str(listId)>>,
         <<"completed", Bool(completed)>>, <<"priority", Str(priority)>>,
         <<"createdAt", Str(createdAt)>>, <<"dueDate", dueDate>> >>)

\* the task addTask(title, listId, priority) builds at second t, nanoid()
\* having returned id
NewTask(id, title, listId, priority, t) ==
  TaskValue(id, title, listId, FALSE, priority, ToISOString(t), Null)

\* the list addList(name, color) builds
NewList(id, name, color, t) ==
  Obj(<< <<"id", Str(id)>>, <<"name", Str(name)>>, <<"color", Str(color)>>,
         <<"createdAt", Str(ToISOString(t))>> >>)

\* the list loadLists() returns on an empty localStorage
DefaultList(t) == NewList(S_default, <<"T","a","s","k","s">>, S_color, t)

\* a Document as createDocument(title, type) made it at second t, its content
\* edited since
DocumentValue(id, title, content, t) ==
  Obj(<< <<"metadata",
           Obj(<< <<"id", Str(id)>>, <<"title", Str(title)>>,
                  <<"type", Str(<<"m","a","r","k","d","o","w","n">>)>>,
                  <<"createdAt", Str(ToISOString(t))>>,
                  <<"updatedAt", Str(ToISOString(t))>>,
                  <<"size", Num(0)>>, <<"isSynced", Bool(FALSE)>> >>)>>,
         <<"content", Str(content)>> >>)

\* { ...a, ...b }
Spread(a, b) ==
  LET ea == Entries(a)
      eb == Entries(b)
      keysA == {ea[i][1] : i \in 1..Len(ea)}
      keysB == {eb[i][1] : i \in 1..Len(eb)}
  IN Obj([i \in 1..Len(ea) |->
            IF ea[i][1] \in keysB THEN <<ea[i][1], Get(b, ea[i][1])>> ELSE ea[i]]
         \o SelectSeq(eb, LAMBDA e : e[1] \notin keysA))

\* the arguments of the write paths
TaskTitles == {S_Report, S_TBD, S_newtask}
ListNames == {S_Work, S_TBD}
TaskUpdates ==
  {Obj(<< <<"title", Str(S_newtask)>> >>), Obj(<< <<"completed", Bool(TRUE)>> >>)}
EditedDocuments ==
  {DocumentValue(id, S_Report, S_Report, 0) : id \in DocumentNanoIds}
    \cup {DocumentValue(id, S_Report, S_mock, 0) : id \in DocumentNanoIds}

\* the records the write paths can build from them
StoreTasks ==
  {TaskValue(id, title, listId, completed, <<"m","e","d","i","u","m">>, ToISOString(t), Null) :
     id \in TaskNanoIds, title \in TaskTitles, listId \in {S_default} \cup ListNanoIds,
     completed \in BOOLEAN, t \in 0..MaxNow}
StoreLists ==
  {NewList(id, name, S_color, t) : id \in ListNanoIds, name \in ListNames, t \in 0..MaxNow}
StoreRecords == StoreTasks \cup StoreLists \cup EditedDocuments

\* the values detect() is applied to when one of DataValues is scanned
Children(x) == {Entries(x)[i][2] : i \in 1..Len(Entries(x))}
ScannedValues ==
  LET d0 == DataValues \cup StoreRecords
      d1 == d0 \cup UNION {Children(x) : x \in d0}
  IN d1 \cup UNION {Children(x) : x \in d1}

ScannedStrings == {Trim(StringOf(x)) : x \in ScannedValues}

MaxStringLen ==
  CHOOSE n \in 0..64 :
    /\ \A s \in ScannedStrings : Len(s) <= n
    /\ \E s \in ScannedStrings : Len(s) = n

\* pattern.test(s) for every pattern, scanned string and lastIndex, computed once
TestTable ==
  [name \in RegExpNames |->
    [s \in ScannedStrings |->
      [li \in 0..MaxStringLen |->
        RegExpTest(PatternSource(name), IgnoreCase(name), s, li)]]]


(***************************************************************************)
(* PlaceholderDetector (productionSafety.ts:270-347).  The detector reads  *)
(* and writes the lastIndex of the shared patterns, so every operation     *)
(* takes the lastIndex of each pattern (li) and returns it updated.        *)
(***************************************************************************)
PRODUCTION_ENVIRONMENTS == {"production", "prod"}
STAGING_ENVIRONMENTS == {"staging", "stage", "qa"}

\* PlaceholderDetector.isProduction
DetectorIsProduction(cfg) == cfg.environment \in PRODUCTION_ENVIRONMENTS

\* severity of a regular-expression hit (productionSafety.ts:295)
PatternSeverity(cfg) == IF DetectorIsProduction(cfg) THEN "high" ELSE "medium"

\* mutant: the severities of line 295 used for a PLACEHOLDER_VALUES hit
ValueSeverity_AsPattern(cfg) == PatternSeverity(cfg)

\* severity of a PLACEHOLDER_VALUES hit (productionSafety.ts:306)
ValueSeverity(cfg) == IF DetectorIsProduction(cfg) THEN "critical" ELSE "high"

\* pattern.some(p => p.toLowerCase() === trimmedValue.toLowerCase())
PlaceholderValueHit(trimmed) ==
  \E i \in 1..Len(PLACEHOLDER_VALUES) :
    ToLowerCase(PLACEHOLDER_VALUES[i]) = ToLowerCase(trimmed)

\* the same, computed once for every scanned string
PlaceholderValueTable == [s \in ScannedStrings |-> PlaceholderValueHit(s)]

IsPlaceholderValue(trimmed) == PlaceholderValueTable[trimmed]

\* pattern.test(trimmedValue) on the shared regular expression
PatternTest(name, trimmed, lastIdx) == TestTable[name][trimmed][lastIdx]

PatternError(name, cfg, context) ==
  [code |-> <<"PLACEHOLDER_DETECTED_", name>>, severity |-> PatternSeverity(cfg),
   category |-> "placeholder", location |-> context]

ValueError(cfg, context) ==
  [code |-> <<"PLACEHOLDER_VALUE_DETECTED">>, severity |-> ValueSeverity(cfg),
   category |-> "placeholder", location |-> context]

\* one iteration of the loop over Object.entries(PLACEHOLDER_PATTERNS): whether
\* it pushes an error, and the lastIndex test() leaves its pattern with.  An
\* iteration reads and writes the lastIndex of its own pattern only.
DetectPattern(name, trimmed, li) ==
  IF name \in RegExpNames THEN PatternTest(name, trimmed, li[name])
  ELSE [found |-> IsPlaceholderValue(trimmed), lastIndex |-> 0]

\* the error the iteration of a pattern pushes
DetectedError(name, cfg, context) ==
  IF name \in RegExpNames THEN PatternError(name, cfg, context)
  ELSE ValueError(cfg, context)

\* the loop: the errors in the order of the keys, and every lastIndex after it
DetectLoop(trimmed, context, cfg, li) ==
  LET hits == SelectSeq(PatternOrder,
                        LAMBDA name : DetectPattern(name, trimmed, li).found)
  IN [errors |-> [i \in 1..Len(hits) |-> DetectedError(hits[i], cfg, context)],
      li |-> [name \in RegExpNames |-> DetectPattern(name, trimmed, li).lastIndex]]

\* PlaceholderDetector.detect(value, context)
Detect(value, context, cfg, li) ==
  IF value.k \in {"null", "undefined"}
  THEN [errors |-> <<>>, li |-> li]
  ELSE DetectLoop(Trim(StringOf(value)), context, cfg, li)

\* errors.push(...fieldErrors), the patterns left as the call left them, and
\* the loop moved to its next element.  The loop state carries the position
\* (next) beside the errors and the lastIndex of every pattern.
PushErrors(acc, r) ==
  [next |-> acc.next + 1, errors |-> acc.errors \o r.errors, li |-> r.li]

\* the state a loop of the detector starts in
LoopStart(li) == [next |-> 1, errors |-> <<>>, li |-> li]

\* what a loop of the detector returns: the errors, the patterns as left
LoopResult(acc) == [errors |-> acc.errors, li |-> acc.li]

RECURSIVE DetectEntries(_, _, _)
\* the loop of detectInObject over the entries es[acc.next..]
DetectEntries(es, cfg, acc) ==
  IF acc.next > Len(es) THEN acc
  ELSE DetectEntries(es, cfg,
         PushErrors(acc, Detect(es[acc.next][2], <<es[acc.next][1]>>, cfg, acc.li)))

\* PlaceholderDetector.detectInObject(obj)
DetectInObject(obj, cfg, li) ==
  LoopResult(DetectEntries(Entries(obj), cfg, LoopStart(li)))

RECURSIVE DetectItems(_, _, _, _)
\* the forEach of detectInArray over the items xs[acc.next..]
DetectItems(xs, context, cfg, acc) ==
  IF acc.next > Len(xs) THEN acc
  ELSE DetectItems(xs, context, cfg,
         PushErrors(acc,
           IF IsObjectLike(xs[acc.next])
           THEN DetectInObject(xs[acc.next], cfg, acc.li)
           ELSE Detect(xs[acc.next], <<context, IndexKeys[acc.next]>>, cfg, acc.li)))

\* PlaceholderDetector.detectInArray(array, context)
DetectInArray(array, context, cfg, li) ==
  LoopResult(DetectItems(array.v, context, cfg, LoopStart(li)))

(***************************************************************************)
(* ProductionSafety (productionSafety.ts:532-673)                          *)
(***************************************************************************)
\* ProductionSafety.detectPlaceholders(data)
DetectPlaceholders(data, cfg, li) ==
  IF IsObjectLike(data)
  THEN IF data.k = "array"
       THEN DetectInArray(data, "undefined", cfg, li)
       ELSE DetectInObject(data, cfg, li)
  ELSE Detect(data, <<>>, cfg, li)

IsProduction(cfg) == cfg.environment \in PRODUCTION_ENVIRONMENTS
\* mutant: every environment that is not production counts as staging
IsStaging_NotProduction(cfg) == cfg.environment \notin PRODUCTION_ENVIRONMENTS
IsStaging(cfg) == cfg.environment \in STAGING_ENVIRONMENTS

Check(name, passed, severity) ==
  [name |-> name, passed |-> passed, severity |-> severity]

\* mutant: staging forgotten
ScansPlaceholders_ProductionOnly(cfg, data) ==
  IsProduction(cfg) /\ cfg.blockPlaceholders /\ Truthy(data)

\* whether performSafetyCheck runs the detector (productionSafety.ts:565)
ScansPlaceholders(cfg, data) ==
  (IsProduction(cfg) \/ IsStaging(cfg)) /\ cfg.blockPlaceholders /\ Truthy(data)

\* mutant: isSafe taken right after the environment check was pushed, before
\* the placeholder check can fail or block
IsSafe_Early(checks, blockedActions) == checks[1].passed

\* isSafe (productionSafety.ts:606)
IsSafe(checks, blockedActions) ==
  (\A i \in 1..Len(checks) : checks[i].passed) /\ Len(blockedActions) = 0

\* the rest of performSafetyCheck, the detector having returned `found`
\* (no errors when it was not run)
SafetyCheckResult(found, scan, operation, data, cfg) ==
  LET hit == scan /\ Len(found.errors) > 0
      checks ==
        <<Check("environment_check", TRUE, "low")>>
        \o (IF ~scan THEN <<>>
            ELSE IF hit
            THEN <<Check("placeholder_check", FALSE,
                         IF IsProduction(cfg) THEN "critical" ELSE "high")>>
            ELSE <<Check("placeholder_check", TRUE, "low")>>)
        \o (IF cfg.requireDataContracts /\ Truthy(data)
            THEN <<Check("data_contract_check", TRUE, "low")>> ELSE <<>>)
        \o (IF cfg.enableObservability
            THEN <<Check("observability_check", TRUE, "low")>> ELSE <<>>)
      blockedActions == IF hit THEN <<operation>> ELSE <<>>
      recommendations ==
        IF hit THEN <<"Remove all placeholder values before deploying">> ELSE <<>>
  IN [result |-> [isSafe |-> IsSafe(checks, blockedActions),
                  environment |-> cfg.environment,
                  checks |-> checks,
                  recommendations |-> recommendations,
                  blockedActions |-> blockedActions],
      li |-> found.li]

\* ProductionSafety.performSafetyCheck(operation, data): the result and the
\* lastIndex of the patterns after the call
PerformSafetyCheck(operation, data, cfg, li) ==
  SafetyCheckResult(IF ScansPlaceholders(cfg, data)
                    THEN DetectPlaceholders(data, cfg, li)
                    ELSE [errors |-> <<>>, li |-> li],
                    ScansPlaceholders(cfg, data), operation, data, cfg)

(***************************************************************************)
(* zod schemas, the subset the data contracts are written in               *)
(* (observability.ts:719-910).  A schema parses a value into a status      *)
(* (valid, dirty: issues were added, aborted: no value), the parsed value  *)
(* and the issues, each with the path of the field and its message.        *)
(* safeParse succeeds when the status is valid, and then returns the       *)
(* parsed value: an object keeps the keys of its shape only, and a         *)
(* default replaces undefined.                                             *)
(***************************************************************************)
\* checks of z.string()
Min(n, m)          == [c |-> "min", n |-> n, re |-> Bol, ic |-> FALSE, m |-> m]
Max(n, m)          == [c |-> "max", n |-> n, re |-> Bol, ic |-> FALSE, m |-> m]
Regex(re, ic, m)   == [c |-> "regex", n |-> 0, re |-> re, ic |-> ic, m |-> m]

\* checks of z.number(): the numbers of the model are integers, so .int() holds
NonNegative(m)     == [c |-> "nonnegative", n |-> 0, re |-> Bol, ic |-> FALSE, m |-> m]
NumMax(n, m)       == [c |-> "nummax", n |-> n, re |-> Bol, ic |-> FALSE, m |-> m]

ZString(checks)    == [t |-> "string", checks |-> checks]
ZNumber(checks)    == [t |-> "number", checks |-> checks]
ZBoolean           == [t |-> "boolean"]
ZNull              == [t |-> "null"]
ZEnum(values, m)   == [t |-> "enum", values |-> values, m |-> m]
ZArray(inner)      == [t |-> "array", inner |-> inner]
\* shape: a sequence of <<key, schema>>
ZObject(shape)     == [t |-> "object", shape |-> shape]
ZOptional(inner)   == [t |-> "optional", inner |-> inner]
ZDefault(inner, d) == [t |-> "default", inner |-> inner, d |-> d]
ZUnion(options)    == [t |-> "union", options |-> options]
\* schema.refine(check, { message }): check is the name of a predicate
ZRefine(inner, check, m) == [t |-> "refine", inner |-> inner, check |-> check, m |-> m]

Issue(path, m) == [path |-> path, message |-> m]
Parsed(status, value, issues) ==
  [status |-> status, value |-> value, issues |-> issues]
Invalid(path, m) == Parsed("aborted", Undefined, <<Issue(path, m)>>)

\* String.prototype.includes
Includes(s, sub) ==
  \E i \in 0..(Len(s) - Len(sub)) : SubSeq(s, i + 1, i + Len(sub)) = sub

\* RegExp.prototype.test of a regular expression without the g flag
TestOnce(re, ic, s) == RegExpTest(re, ic, s, 0).found

\* key in obj
HasKey(x, key) == \E i \in 1..Len(Entries(x)) : Entries(x)[i][1] = key

\* one check of a string or number schema holds of s
StringCheckHolds(ck, s) ==
  CASE ck.c = "min" -> Len(s) >= ck.n
    [] ck.c = "max" -> Len(s) <= ck.n
    [] ck.c = "regex" -> TestOnce(ck.re, ck.ic, s)
    [] ck.c = "nonnegative" -> s >= 0
    [] ck.c = "nummax" -> s <= ck.n

\* ZodString._parse and ZodNumber._parse after the type check: every check
\* runs, each failure adds an issue
RECURSIVE StringIssues(_, _, _, _)
StringIssues(checks, i, s, path) ==
  IF i > Len(checks) THEN <<>>
  ELSE (IF StringCheckHolds(checks[i], s) THEN <<>>
        ELSE <<Issue(path, checks[i].m)>>)
       \o StringIssues(checks, i + 1, s, path)

StatusOf(issues) == IF issues = <<>> THEN "valid" ELSE "dirty"

\* ParseStatus.mergeObjectSync / mergeArray: aborted if a member is
WorseStatus(a, b) ==
  IF "aborted" \in {a, b} THEN "aborted"
  ELSE IF "dirty" \in {a, b} THEN "dirty" ELSE "valid"

(***************************************************************************)
(* The data contracts of the application (observability.ts:705-1217)       *)
(***************************************************************************)
IdChars == WordChars \cup {"-"}
HexChars == DigitChars \cup {"A","B","C","D","E","F","a","b","c","d","e","f"}
Digit == Cls(DigitChars)
Anchored(r) == Cat(<<Bol, r, Eol>>)

\* /^[a-zA-Z0-9-_]+$/
RE_ID == Anchored(Plus(Cls(IdChars)))
\* /^#[0-9A-Fa-f]{6}$/
RE_COLOR ==
  Anchored(Cat(<<Chr("#"), Cls(HexChars), Cls(HexChars), Cls(HexChars),
                 Cls(HexChars), Cls(HexChars), Cls(HexChars)>>))
\* z.string().datetime(): /^\d{4}-\d{2}-\d{2}T\d{2}:\d{2}:\d{2}(\.\d+)?Z$/
RE_DATETIME ==
  Anchored(Cat(<<Digit, Digit, Digit, Digit, Chr("-"), Digit, Digit, Chr("-"),
                 Digit, Digit, Chr("T"), Digit, Digit, Chr(":"), Digit, Digit,
                 Chr(":"), Digit, Digit,
                 Opt(Cat(<<Chr("."), Plus(Digit)>>)), Chr("Z")>>))

\* /^(untitled|new \w+|sample|example|template|placeholder|dummy|\[.*?\]|<.*?>|{{.*?}}|TODO|FIXME|XXX)$/i
PLACEHOLDER_TITLE_PATTERN ==
  Anchored(Alt(<<Lit(<<"u","n","t","i","t","l","e","d">>),
                 Cat(<<Lit(<<"n","e","w"," ">>), Plus(Cls(WordChars))>>),
                 Lit(<<"s","a","m","p","l","e">>), Lit(<<"e","x","a","m","p","l","e">>), Lit(<<"t","e","m","p","l","a","t","e">>),
                 Lit(<<"p","l","a","c","e","h","o","l","d","e","r">>), Lit(<<"d","u","m","m","y">>),
                 Cat(<<Chr("["), Lazy(AnyChar), Chr("]")>>),
                 Cat(<<Chr("<"), Lazy(AnyChar), Chr(">")>>),
                 Cat(<<Lit(<<"{","{">>), Lazy(AnyChar), Lit(<<"}","}">>)>>),
                 Lit(<<"T","O","D","O">>), Lit(<<"F","I","X","M","E">>), Lit(<<"X","X","X">>)>>))

\* /^(untagged|uncategorized|general|misc|other|test|sample)$/i
PLACEHOLDER_TAG_PATTERN ==
  Anchored(Alt(<<Lit(<<"u","n","t","a","g","g","e","d">>), Lit(<<"u","n","c","a","t","e","g","o","r","i","z","e","d">>), Lit(<<"g","e","n","e","r","a","l">>),
                 Lit(<<"m","i","s","c">>), Lit(<<"o","t","h","e","r">>), Lit(<<"t","e","s","t">>), Lit(<<"s","a","m","p","l","e">>)>>))

\* /^(undefined|null|NaN|infinity|test-?\d*|sample-?\d*|dummy-?\d*)$/i
PLACEHOLDER_ID_PATTERN ==
  Anchored(Alt(<<Lit(<<"u","n","d","e","f","i","n","e","d">>), Lit(<<"n","u","l","l">>), Lit(<<"N","a","N">>), Lit(<<"i","n","f","i","n","i","t","y">>),
                 Cat(<<Lit(<<"t","e","s","t">>), Opt(Chr("-")), Star(Digit)>>),
                 Cat(<<Lit(<<"s","a","m","p","l","e">>), Opt(Chr("-")), Star(Digit)>>),
                 Cat(<<Lit(<<"d","u","m","m","y">>), Opt(Chr("-")), Star(Digit)>>)>>))

\* each /^.../i, tested against one line
PLACEHOLDER_CONTENT_PATTERNS ==
  <<Cat(<<Bol, Lit(<<"l","o","r","e","m">>), Plus(Cls(SpaceChars)), Lit(<<"i","p","s","u","m">>)>>),
    Cat(<<Bol, Lit(<<"p","l","a","c","e","h","o","l","d","e","r">>)>>),
    Cat(<<Bol, Lit(<<"t","o"," ","b","e"," ","c","o","m","p","l","e","t","e","d">>)>>),
    Cat(<<Bol, Lit(<<"t","b","d",":">>)>>),
    Cat(<<Bol, Lit(<<"t","b","c",":">>)>>),
    Cat(<<Bol, Lit(<<"[","t","o","d","o","]">>)>>),
    Cat(<<Bol, Lit(<<"[","f","i","x","m","e","]">>)>>),
    Cat(<<Bol, Lit(<<"[","x","x","x","]">>)>>),
    Cat(<<Bol, Lit(<<"[","h","a","c","k","]">>)>>)>>

\* content.split('\n')
RECURSIVE SplitLines(_, _, _)
SplitLines(s, i, line) ==
  IF i > Len(s) THEN <<line>>
  ELSE IF s[i] = "\n" THEN <<line>> \o SplitLines(s, i + 1, <<>>)
  ELSE SplitLines(s, i + 1, Append(line, s[i]))

IsPlaceholderLine(line) ==
  \E k \in 1..Len(PLACEHOLDER_CONTENT_PATTERNS) :
    TestOnce(PLACEHOLDER_CONTENT_PATTERNS[k], TRUE, line)

\* placeholderLines.length / lines.length < 0.5
FewPlaceholderLines(lines) ==
  2 * Cardinality({i \in 1..Len(lines) : IsPlaceholderLine(lines[i])}) < Len(lines)

\* /^\d{4}-\d{2}-\d{2}$/, the date-only form Date.parse reads as UTC midnight
RE_DATE ==
  Anchored(Cat(<<Digit, Digit, Digit, Digit, Chr("-"), Digit, Digit, Chr("-"),
                 Digit, Digit>>))

\* Date.parse gives a number: the string is an ISO 8601 date or UTC date-time
IsDate(s) == TestOnce(RE_DATETIME, FALSE, s) \/ TestOnce(RE_DATE, FALSE, s)

\* the instant of a date string, written with milliseconds
Instant(s) ==
  IF Len(s) = 10 THEN s \o <<"T","0","0",":","0","0",":","0","0",".","0","0","0","Z">>
  ELSE IF Len(s) = 20 THEN SubSeq(s, 1, 19) \o <<".","0","0","0","Z">>
  ELSE s

DigitValue(c) ==
  CHOOSE n \in 0..9 : <<"0","1","2","3","4","5","6","7","8","9">>[n + 1] = c

\* a < b for two instants: they have one width, so they compare as strings
RECURSIVE InstantBefore(_, _, _)
InstantBefore(a, b, i) ==
  IF i > Len(a) \/ i > Len(b) THEN FALSE
  ELSE IF a[i] = b[i] THEN InstantBefore(a, b, i + 1)
  ELSE DigitValue(a[i]) < DigitValue(b[i])

\* Date.parse(a) < Date.parse(b); false when either is NaN
DateBefore(a, b) ==
  IsDate(a) /\ IsDate(b) /\ InstantBefore(Instant(a), Instant(b), 1)

\* new Date('2000-01-01')
Y2K == <<"2","0","0","0","-","0","1","-","0","1">>

\* the predicates given to .refine(), by the message of their issue
RefinementHolds(check, x, clock) ==
  CASE check = "document-id" ->
         x.v \notin {<<"u","n","d","e","f","i","n","e","d">>, <<"n","u","l","l">>, <<"T","O","D","O">>, <<"F","I","X","M","E">>}
    [] check = "title-pattern" -> ~TestOnce(PLACEHOLDER_TITLE_PATTERN, TRUE, x.v)
    [] check = "document-title-markers" ->
         ~Includes(x.v, <<"T","O","D","O">>) /\ ~Includes(x.v, <<"F","I","X","M","E">>) /\ ~Includes(x.v, <<"X","X","X">>)
    [] check = "task-title-markers" ->
         ~Includes(x.v, <<"T","O","D","O">>) /\ ~Includes(x.v, <<"F","I","X","M","E">>)
    [] check = "date" -> IsDate(x.v)
    [] check = "reasonable-date" ->
         ~DateBefore(ToISOString(clock), x.v) /\ DateBefore(Y2K, x.v) /\ IsDate(x.v)
    [] check = "tag-pattern" -> ~TestOnce(PLACEHOLDER_TAG_PATTERN, TRUE, x.v)
    [] check = "task-id" -> ~TestOnce(PLACEHOLDER_ID_PATTERN, TRUE, x.v)
    [] check = "list-id" -> x.v # <<"d","e","f","a","u","l","t">> \/ Len(x.v) > 0
    [] check = "content" -> FewPlaceholderLines(SplitLines(x.v, 1, <<>>))

\* the message of an invalid_type issue
TypeMessage(x) == IF x.k = "undefined" THEN "Required" ELSE "Invalid type"

ParsedString(x, issues) == Parsed(StatusOf(issues), x, issues)

\* the object or array being built before its first member: the loop state
\* carries the position of the next member beside what was parsed so far
NoMembers == [next |-> 1, status |-> "valid", value |-> <<>>, issues |-> <<>>]

\* a member parsed to r joins the object or array being built; an object
\* keeps a key whose value is not undefined or that the input had
AddMember(acc, key, alwaysSet, r) ==
  [next |-> acc.next + 1,
   status |-> WorseStatus(acc.status, r.status),
   value |-> IF r.value.k # "undefined" \/ alwaysSet
             THEN Append(acc.value, <<key, r.value>>) ELSE acc.value,
   issues |-> acc.issues \o r.issues]

ObjectOf(acc) == Parsed(acc.status, Obj(acc.value), acc.issues)
ArrayOf(acc) ==
  Parsed(acc.status, Arr([i \in 1..Len(acc.value) |-> acc.value[i][2]]), acc.issues)

\* ZodEffects of a refinement: it runs on the value of the inner schema
\* unless that one aborted, and adds one issue when it fails
Refined(inner, holds, path, m) ==
  IF inner.status = "aborted" \/ holds THEN inner
  ELSE Parsed("dirty", inner.value, Append(inner.issues, Issue(path, m)))

RECURSIVE ParseSchema(_, _, _, _), ParseShape(_, _, _, _, _),
          ParseItems(_, _, _, _, _), ParseUnion(_, _, _, _, _, _),
          ParseOption(_, _, _, _, _, _, _), ParseRefine(_, _, _, _)

\* ZodObject._parse, unknownKeys "strip": the keys of the shape, in order
ParseShape(shape, x, path, acc, clock) ==
  IF acc.next > Len(shape) THEN acc
  ELSE LET member == shape[acc.next]
       IN ParseShape(shape, x, path,
            AddMember(acc, member[1], HasKey(x, member[1]),
                      ParseSchema(member[2], Get(x, member[1]),
                                  Append(path, member[1]), clock)), clock)

\* ZodArray._parse: every element
ParseItems(inner, xs, path, acc, clock) ==
  IF acc.next > Len(xs) THEN acc
  ELSE ParseItems(inner, xs, path,
         AddMember(acc, IndexKeys[acc.next], TRUE,
                   ParseSchema(inner, xs[acc.next],
                               Append(path, IndexKeys[acc.next]), clock)), clock)

\* ZodUnion._parse: the first valid option, else the first dirty one, else
\* one invalid_union issue
ParseOption(r, options, i, x, path, dirty, clock) ==
  IF r.status = "valid" THEN r
  ELSE ParseUnion(options, i + 1, x, path,
         IF r.status = "dirty" /\ dirty.status # "dirty" THEN r ELSE dirty, clock)

ParseUnion(options, i, x, path, dirty, clock) ==
  IF i > Len(options)
  THEN (IF dirty.status = "dirty" THEN dirty ELSE Invalid(path, "Invalid input"))
  ELSE ParseOption(ParseSchema(options[i], x, path, clock), options, i, x, path, dirty, clock)

ParseRefine(inner, s, path, clock) ==
  Refined(inner,
          IF inner.status = "aborted" THEN FALSE
          ELSE RefinementHolds(s.check, inner.value, clock),
          path, s.m)

ParseSchema(s, x, path, clock) ==
  CASE s.t = "string" ->
         IF x.k # "string" THEN Invalid(path, TypeMessage(x))
         ELSE ParsedString(x, StringIssues(s.checks, 1, x.v, path))
    [] s.t = "number" ->
         IF x.k # "number" THEN Invalid(path, TypeMessage(x))
         ELSE ParsedString(x, StringIssues(s.checks, 1, x.v, path))
    [] s.t = "boolean" ->
         IF x.k # "boolean" THEN Invalid(path, TypeMessage(x))
         ELSE Parsed("valid", x, <<>>)
    [] s.t = "null" ->
         IF x.k # "null" THEN Invalid(path, TypeMessage(x))
         ELSE Parsed("valid", x, <<>>)
    [] s.t = "enum" ->
         IF x.k # "string" THEN Invalid(path, s.m)
         ELSE IF x.v \notin s.values THEN Invalid(path, s.m)
         ELSE Parsed("valid", x, <<>>)
    [] s.t = "array" ->
         IF x.k # "array" THEN Invalid(path, TypeMessage(x))
         ELSE ArrayOf(ParseItems(s.inner, x.v, path, NoMembers, clock))
    [] s.t = "object" ->
         IF x.k # "object" THEN Invalid(path, TypeMessage(x))
         ELSE ObjectOf(ParseShape(s.shape, x, path, NoMembers, clock))
    [] s.t = "optional" ->
         IF x.k = "undefined" THEN Parsed("valid", Undefined, <<>>)
         ELSE ParseSchema(s.inner, x, path, clock)
    [] s.t = "default" ->
         ParseSchema(s.inner, IF x.k = "undefined" THEN s.d ELSE x, path, clock)
    [] s.t = "union" ->
         ParseUnion(s.options, 1, x, path, Parsed("valid", Undefined, <<>>), clock)
    [] s.t = "refine" -> ParseRefine(ParseSchema(s.inner, x, path, clock), s, path, clock)

\* ZodType.safeParse
SafeParseResult(r) ==
  [success |-> r.status = "valid", data |-> r.value, issues |-> r.issues]
SafeParse(schema, data, clock) ==
  SafeParseResult(ParseSchema(schema, data, <<>>, clock))

DocumentTypes ==
  {<<"m","a","r","k","d","o","w","n">>, <<"y","a","m","l">>, <<"j","s","o","n">>, <<"t","e","x","t">>, <<"h","t","m","l">>, <<"x","m","l">>}
DocumentTypeSchema ==
  ZEnum(DocumentTypes, "Document type must be one of: markdown, yaml, json, text, html, xml")

\* z.string().datetime({ message }).refine(date => !isNaN(Date.parse(date)))
ZDate(datetimeMessage, dateMessage) ==
  ZRefine(ZString(<<Regex(RE_DATETIME, FALSE, datetimeMessage)>>), "date", dateMessage)

DocumentMetadataSchema ==
  ZObject(<<
    <<"id", ZRefine(ZString(<<Min(1, "Document ID cannot be empty"),
                              Regex(RE_ID, FALSE, "Document ID must contain only alphanumeric characters, hyphens, and underscores")>>),
                    "document-id", "Document ID cannot be a placeholder value")>>,
    <<"title", ZRefine(ZRefine(ZString(<<Min(1, "Title cannot be empty"),
                                         Max(500, "Title cannot exceed 500 characters")>>),
                               "title-pattern", "Title appears to be a placeholder"),
                       "document-title-markers",
                       "Title cannot contain TODO, FIXME, or XXX markers")>>,
    <<"type", DocumentTypeSchema>>,
    <<"createdAt", ZDate("Created at must be a valid ISO 8601 datetime",
                         "Created at must be a valid date")>>,
    <<"updatedAt", ZRefine(ZDate("Updated at must be a valid ISO 8601 datetime",
                                 "Updated at must be a valid date"),
                           "reasonable-date", "Updated at must be a reasonable date")>>,
    <<"tags", ZDefault(ZOptional(ZArray(
                ZRefine(ZString(<<Min(1, "Tag cannot be empty"),
                                  Max(50, "Tag cannot exceed 50 characters")>>),
                        "tag-pattern", "Tag appears to be a placeholder"))),
                Arr(<<>>))>>,
    <<"path", ZOptional(ZString(<<Max(1000, "Path cannot exceed 1000 characters")>>))>>,
    <<"size", ZNumber(<<NonNegative("Size cannot be negative"),
                        NumMax(100 * 1024 * 1024, "Document size cannot exceed 100MB")>>)>>,
    <<"isSynced", ZBoolean>>,
    <<"filename", ZOptional(ZString(<<Max(500, "Filename cannot exceed 500 characters")>>))>>,
    <<"source", ZOptional(ZString(<<Max(100, "Source cannot exceed 100 characters")>>))>>
  >>)

DocumentSchema ==
  ZObject(<<
    <<"metadata", DocumentMetadataSchema>>,
    <<"content", ZRefine(ZString(<<Max(10 * 1024 * 1024, "Content cannot exceed 10MB")>>),
                         "content",
                         "Document content appears to contain excessive placeholders")>>
  >>)

TaskPrioritySchema ==
  ZEnum({<<"l","o","w">>, <<"m","e","d","i","u","m">>, <<"h","i","g","h">>}, "Priority must be one of: low, medium, high")

TaskSchema ==
  ZObject(<<
    <<"id", ZRefine(ZString(<<Min(1, "Task ID cannot be empty"),
                              Regex(RE_ID, FALSE, "Task ID must contain only valid characters")>>),
                    "task-id", "Task ID appears to be a placeholder")>>,
    <<"title", ZRefine(ZRefine(ZString(<<Min(1, "Task title is required"),
                                         Max(500, "Task title cannot exceed 500 characters")>>),
                               "title-pattern", "Task title appears to be a placeholder"),
                       "task-title-markers",
                       "Task title cannot contain TODO or FIXME markers")>>,
    <<"listId", ZRefine(ZString(<<Min(1, "List ID is required")>>),
                        "list-id", "List ID must be valid")>>,
    <<"completed", ZBoolean>>,
    <<"priority", TaskPrioritySchema>>,
    <<"createdAt", ZDate("Created at must be a valid ISO 8601 datetime",
                         "Created at must be a valid date")>>,
    <<"dueDate", ZUnion(<<ZString(<<Regex(RE_DATETIME, FALSE,
                                          "Due date must be a valid ISO 8601 datetime")>>),
                          ZNull>>)>>,
    <<"notes", ZOptional(ZString(<<Max(5000, "Notes cannot exceed 5000 characters")>>))>>,
    <<"tags", ZDefault(ZOptional(ZArray(
                ZString(<<Min(1, "Tag cannot be empty"),
                          Max(50, "Tag cannot exceed 50 characters")>>))),
                Arr(<<>>))>>
  >>)

TaskListSchema ==
  ZObject(<<
    <<"id", ZString(<<Min(1, "List ID cannot be empty"),
                      Regex(RE_ID, FALSE, "List ID must contain only valid characters")>>)>>,
    <<"name", ZRefine(ZString(<<Min(1, "List name is required"),
                                Max(100, "List name cannot exceed 100 characters")>>),
                      "title-pattern", "List name appears to be a placeholder")>>,
    <<"color", ZString(<<Regex(RE_COLOR, FALSE, "Color must be a valid hex color code")>>)>>,
    <<"createdAt", ZDate("Created at must be a valid ISO 8601 datetime",
                         "Created at must be a valid date")>>
  >>)

\* a ValidationRule; severity "" stands for a rule that declares none
Rule(name, errorMessage, severity) ==
  [name |-> name, errorMessage |-> errorMessage, severity |-> severity]

documentValidationRules ==
  <<Rule("document.title-not-placeholder",
         "Document title appears to be a placeholder or template", "medium"),
    Rule("document.content-not-empty",
         "Document content must not be null or undefined", "critical"),
    Rule("document.timestamps-logical",
         "Updated timestamp must be after or equal to created timestamp", "high")>>

taskValidationRules ==
  <<Rule("task.title-not-placeholder", "Task title appears to be a placeholder", "medium"),
    Rule("task.due-date-in-future-or-null", "Due date must be a valid future date", "medium")>>

DocumentTitleIndicators ==
  {<<"u","n","t","i","t","l","e","d">>, <<"n","e","w"," ","d","o","c","u","m","e","n","t">>, <<"s","a","m","p","l","e"," ","d","o","c","u","m","e","n","t">>, <<"e","x","a","m","p","l","e"," ","d","o","c","u","m","e","n","t">>,
   <<"t","e","m","p","l","a","t","e">>, <<"p","l","a","c","e","h","o","l","d","e","r">>, <<"d","u","m","m","y"," ","d","o","c","u","m","e","n","t">>, <<"l","o","r","e","m"," ","i","p","s","u","m">>}
TaskTitleIndicators ==
  {<<"n","e","w"," ","t","a","s","k">>, <<"s","a","m","p","l","e"," ","t","a","s","k">>, <<"t","e","s","t"," ","t","a","s","k">>, <<"p","l","a","c","e","h","o","l","d","e","r">>,
   <<"c","l","i","c","k"," ","t","o"," ","a","d","d">>, <<"e","n","t","e","r"," ","t","a","s","k">>, <<"t","o","d","o">>, <<"f","i","x","m","e">>}

\* title.toLowerCase() includes one of the indicators
HasIndicator(title, indicators) ==
  \E w \in indicators : Includes(ToLowerCase(title.v), w)

\* rule.validate(data), for the rules of the application
AppRuleHolds(name, data) ==
  CASE name = "document.title-not-placeholder" ->
         /\ Truthy(Get(Get(data, "metadata"), "title"))
         /\ ~HasIndicator(Get(Get(data, "metadata"), "title"), DocumentTitleIndicators)
    [] name = "document.content-not-empty" ->
         Get(data, "content").k \notin {"undefined", "null"}
    [] name = "document.timestamps-logical" ->
         /\ Truthy(Get(Get(data, "metadata"), "createdAt"))
         /\ Truthy(Get(Get(data, "metadata"), "updatedAt"))
         /\ IsDate(Get(Get(data, "metadata"), "createdAt").v)
         /\ IsDate(Get(Get(data, "metadata"), "updatedAt").v)
         /\ ~DateBefore(Get(Get(data, "metadata"), "updatedAt").v,
                        Get(Get(data, "metadata"), "createdAt").v)
    [] name = "task.title-not-placeholder" ->
         /\ Truthy(Get(data, "title"))
         /\ ~HasIndicator(Get(data, "title"), TaskTitleIndicators)
    [] name = "task.due-date-in-future-or-null" ->
         ~Truthy(Get(data, "dueDate")) \/ DateBefore(Y2K, Get(data, "dueDate").v)

\* a DataContract: the fields validate() reads
Contract(schema, rules) == [schema |-> schema, validationRules |-> rules]

DocumentMetadataContract == Contract(DocumentMetadataSchema, <<>>)
DocumentContract == Contract(DocumentSchema, documentValidationRules)
TaskContract == Contract(TaskSchema, taskValidationRules)
TaskListContract == Contract(TaskListSchema, <<>>)

(***************************************************************************)
(* Contracts registered by a caller of the public registry, beside those   *)
(* of the application: the one-field contract of a required title, and the *)
(* same with two rules, the first declaring no severity and reading a key  *)
(* that is not part of the schema.                                         *)
(***************************************************************************)
TitleSchema ==
  ZObject(<< <<"title", ZString(<<Min(1, "Title cannot be empty"),
                                  Max(500, "Title cannot exceed 500 characters")>>)>> >>)
TitleContract == Contract(TitleSchema, <<>>)
OwnedTitleContract ==
  Contract(TitleSchema,
           <<Rule("custom.has-owner", "The record names no owner", ""),
             Rule("task.title-not-placeholder", "Task title appears to be a placeholder",
                  "medium")>>)

\* rule.validate(data)
RuleHolds(name, data) ==
  IF name = "custom.has-owner" THEN Get(data, "owner").k # "undefined"
  ELSE AppRuleHolds(name, data)

ContractNames ==
  {"DocumentContract", "DocumentMetadataContract", "TaskContract",
   "TaskListContract", "TitleContract", "OwnedTitleContract"}

\* the contract object a name refers to
ContractNamed(name) ==
  CASE name = "DocumentContract" -> DocumentContract
    [] name = "DocumentMetadataContract" -> DocumentMetadataContract
    [] name = "TaskContract" -> TaskContract
    [] name = "TaskListContract" -> TaskListContract
    [] name = "TitleContract" -> TitleContract
    [] name = "OwnedTitleContract" -> OwnedTitleContract

(***************************************************************************)
(* SchemaRegistry (productionSafety.ts:177-264).  The Map of contracts is  *)
(* a function on the registered keys; an entry holds the registered        *)
(* contract object and the lastUpdated stamp of its registration.          *)
(***************************************************************************)
\* Map.prototype.set
MapSet_KeepFirst(m, key, value) ==
  [k \in DOMAIN m \cup {key} |-> IF k \in DOMAIN m THEN m[k] ELSE value]

MapSet(m, key, value) ==
  [k \in DOMAIN m \cup {key} |-> IF k = key THEN value ELSE m[k]]

\* SchemaRegistry.register
RegistryRegister(contracts, key, name, clock) ==
  MapSet(contracts, key, [contract |-> name, lastUpdated |-> ToISOString(clock)])

ValidationError(code, message, severity, location) ==
  [code |-> code, message |-> message, severity |-> severity,
   category |-> "schema_violation", location |-> location]

IsValid_Always(errors) == TRUE

IsValid(errors) == Len(errors) = 0

ValidationResult(errors) ==
  [isValid |-> IsValid(errors), errors |-> errors, warnings |-> <<>>]

SchemaNotFound_Silent(key) == ValidationResult(<<>>)

\* the result for a key that has no contract
SchemaNotFound(key) ==
  [isValid |-> FALSE,
   errors |-> <<ValidationError("SCHEMA_NOT_FOUND", <<"No data contract registered for", key>>,
                                "critical", <<>>)>>,
   warnings |-> <<>>]

SchemaErrors_FirstOnly(issues) ==
  [i \in 1..(IF Len(issues) > 1 THEN 1 ELSE Len(issues)) |->
    ValidationError("SCHEMA_VALIDATION_ERROR", <<issues[i].path, issues[i].message>>,
                    "high", issues[i].path)]

\* one SCHEMA_VALIDATION_ERROR per issue of the schema
SchemaErrors(issues) ==
  [i \in 1..Len(issues) |->
    ValidationError("SCHEMA_VALIDATION_ERROR", <<issues[i].path, issues[i].message>>,
                    "high", issues[i].path)]

\* one CUSTOM_VALIDATION_FAILED per rule that fails on data, in rule order
RECURSIVE RuleErrors(_, _, _)
RuleErrors_StopAtFirst(rules, i, data) ==
  IF i > Len(rules) THEN <<>>
  ELSE IF RuleHolds(rules[i].name, data) THEN RuleErrors(rules, i + 1, data)
  ELSE <<ValidationError("CUSTOM_VALIDATION_FAILED", <<rules[i].errorMessage>>,
                         IF rules[i].severity = "" THEN "medium"
                         ELSE rules[i].severity, <<>>)>>

RuleErrors(rules, i, data) ==
  IF i > Len(rules) THEN <<>>
  ELSE (IF RuleHolds(rules[i].name, data) THEN <<>>
        ELSE <<ValidationError("CUSTOM_VALIDATION_FAILED", <<rules[i].errorMessage>>,
                               IF rules[i].severity = "" THEN "medium"
                               ELSE rules[i].severity, <<>>)>>)
       \o RuleErrors(rules, i + 1, data)

\* validate() once the schema has parsed the data to `result`
ValidateParsed(contract, result) ==
  ValidationResult(
    IF result.success THEN RuleErrors(contract.validationRules, 1, result.data)
    ELSE SchemaErrors(result.issues))

ValidateContract(contract, data, clock) ==
  ValidateParsed(contract, SafeParse(contract.schema, data, clock))

\* the contracts and records of the registry on its own
RegistryContracts == {"TaskContract", "TitleContract", "OwnedTitleContract"}

TaskRecord(id, title, createdAt, dueDate) ==
  Obj(<< <<"id", Str(id)>>, <<"title", Str(title)>>, <<"listId", Str(<<"d","e","f","a","u","l","t">>)>>,
         <<"completed", Bool(FALSE)>>, <<"priority", Str(<<"m","e","d","i","u","m">>)>>,
         <<"createdAt", Str(createdAt)>>, <<"dueDate", dueDate>> >>)

OwnedTitleRecord(title, owner) ==
  Obj(<< <<"title", Str(title)>>, <<"owner", Str(owner)>> >>)

RegistryData ==
  {Undefined, Str(S_Report), TitleRecord(S_Report), TitleRecord(S_empty),
   TitleRecord(<<"p","l","a","c","e","h","o","l","d","e","r">>),
   OwnedTitleRecord(S_Report, <<"a","n","n">>), OwnedTitleRecord(<<"E","n","t","e","r"," ","t","a","s","k">>, <<"a","n","n">>),
   TaskRecord(<<"t","-","1">>, S_Report, ToISOString(0), Null),
   TaskRecord(<<"t","-","1">>, <<"E","n","t","e","r"," ","t","a","s","k"," ","h","e","r","e">>, ToISOString(0), Str(<<"1","9","9","9","-","1","2","-","3","1","T","0","0",":","0","0",":","0","0",".","0","0","0","Z">>)),
   TaskRecord(<<"t","e","s","t","-","1">>, <<"n","e","w"," ","t","a","s","k">>, <<"t","o","d","a","y">>, Str(<<"t","o","m","o","r","r","o","w">>))}

\* the records handed to validate under a contract
ValidatedData(name) ==
  (IF name \in RegistryContracts THEN RegistryData ELSE {})
    \cup (CASE name = "TaskContract" -> StoreTasks
            [] name = "TaskListContract" -> StoreLists
            [] name = "DocumentContract" -> EditedDocuments
            [] OTHER -> {})

\* ValidateContract for every contract, record and second, computed once
ValidateTable ==
  [name \in ContractNames |->
    [d \in ValidatedData(name) |->
      [t \in 0..MaxNow |-> ValidateContract(ContractNamed(name), d, t)]]]

\* SchemaRegistry.validate
RegistryValidate(contracts, key, data, clock) ==
  IF key \notin DOMAIN contracts THEN SchemaNotFound(key)
  ELSE ValidateTable[contracts[key].contract][data][clock]

(***************************************************************************)
(* ObservabilitySystem (observability.ts:103-617).  Times are in seconds:  *)
(* Date.now() is the clock, and a retention of d days is d * 24 * 60 * 60. *)
(* The state of an engine is the record o of its collections and of the    *)
(* snapshot it persisted; `full` says that localStorage.setItem throws.    *)
(***************************************************************************)
\* errorRate is in hundredths
DEFAULT_CONFIG ==
  [enableMetrics |-> TRUE, enableLogging |-> TRUE, enableTracing |-> TRUE,
   enableAlerts |-> TRUE, enableHealthChecks |-> TRUE,
   metricRetentionDays |-> 30, logRetentionDays |-> 7,
   alertThresholds |-> [errorRate |-> 5, latencyMs |-> 1000,
                        dataQualityScore |-> 70, placeholderCount |-> 0]]

\* the sizes saveToStorage cuts the collections to, and the rolling window
MetricSnapshotLimit == 1000
LogSnapshotLimit == 500
AlertSnapshotLimit == 100
AggregateLimit == 1000

\* the characters of the metric names of the model
MetricNameChars(name) ==
  CASE name = "alert.count" -> <<"a","l","e","r","t",".","c","o","u","n","t">>
    [] name = "save.duration" -> <<"s","a","v","e",".","d","u","r","a","t","i","o","n">>
    [] name = "api.latency" -> <<"a","p","i",".","l","a","t","e","n","c","y">>
    [] name = "placeholder.count" -> <<"p","l","a","c","e","h","o","l","d","e","r",".","c","o","u","n","t">>
    [] name = "data_quality.score" -> <<"d","a","t","a","_","q","u","a","l","i","t","y",".","s","c","o","r","e">>
    [] name = "task.count" -> <<"t","a","s","k",".","c","o","u","n","t">>
    [] name = "span.duration" -> <<"s","p","a","n",".","d","u","r","a","t","i","o","n">>
    [] name = "span.errors" -> <<"s","p","a","n",".","e","r","r","o","r","s">>
    [] name = "error.count" -> <<"e","r","r","o","r",".","c","o","u","n","t">>
    [] name = "health.check" -> <<"h","e","a","l","t","h",".","c","h","e","c","k">>
    [] name = "document.validation_passed" ->
         <<"d","o","c","u","m","e","n","t",".","v","a","l","i","d","a","t","i","o","n",
           "_","p","a","s","s","e","d">>
    [] name = "document.saved" ->
         <<"d","o","c","u","m","e","n","t",".","s","a","v","e","d">>

\* metric.name.includes(word)
NameIncludes(name, word) == Includes(MetricNameChars(name), word)

NoTags == <<>>
Metric(name, value, t, tags, unit) ==
  [name |-> name, value |-> value, timestamp |-> t, tags |-> tags, unit |-> unit]
LogEntry(level, message, t) == [level |-> level, message |-> message, timestamp |-> t]

\* Date.now(), in seconds, at second t of the modelled minute
DateNow(t) == 1793491200 + t

\* resolvedAt of an alert that has none
NoTime == -1
\* generateId(): the clock and a random suffix
AlertId(t, r) == <<t, r>>
Alert(id, severity, title, t, category) ==
  [id |-> id, severity |-> severity, title |-> title, timestamp |-> t,
   category |-> category, resolved |-> FALSE, resolvedAt |-> NoTime]

\* array.slice(-n)
LastN(q, n) == IF Len(q) <= n THEN q ELSE SubSeq(q, Len(q) - n + 1, Len(q))

NoSnapshot == [present |-> FALSE, metrics |-> <<>>, logs |-> <<>>, alerts |-> <<>>]
Snapshot_Whole(o) ==
  [present |-> TRUE, metrics |-> o.metrics, logs |-> o.logs, alerts |-> o.alerts]

\* the data saveToStorage writes
Snapshot(o) ==
  [present |-> TRUE, metrics |-> LastN(o.metrics, MetricSnapshotLimit),
   logs |-> LastN(o.logs, LogSnapshotLimit),
   alerts |-> LastN(o.alerts, AlertSnapshotLimit)]

\* saveToStorage: a throw of setItem is caught
SaveToStorage(o, full) == IF full THEN o ELSE [o EXCEPT !.storage = Snapshot(o)]

LogOn_WriteFirst(o, cfg, level, message, t, full) ==
  IF ~cfg.enableLogging \/ full THEN o
  ELSE SaveToStorage([o EXCEPT !.logs = Append(@, LogEntry(level, message, t))], full)

\* log(level, message): the entry, then the snapshot
LogOn(o, cfg, level, message, t, full) ==
  IF ~cfg.enableLogging THEN o
  ELSE SaveToStorage([o EXCEPT !.logs = Append(@, LogEntry(level, message, t))], full)

Windowed_DropNewest(values) ==
  IF Len(values) > AggregateLimit THEN SubSeq(values, 1, Len(values) - 1) ELSE values

\* the rolling window of a name after one more value
Windowed(values) == IF Len(values) > AggregateLimit THEN Tail(values) ELSE values
PushAggregate(agg, name, value) ==
  [n \in DOMAIN agg \cup {name} |->
    IF n = name
    THEN Windowed(Append(IF name \in DOMAIN agg THEN agg[name] ELSE <<>>, value))
    ELSE agg[n]]

PushMetric(o, m) ==
  [o EXCEPT !.metrics = Append(@, m),
            !.metricAggregates = PushAggregate(@, m.name, m.value)]

RECURSIVE RecordMetricOn(_, _, _, _, _), CheckMetricThresholds(_, _, _, _, _),
          CreateAlertOn(_, _, _, _, _, _, _, _)

CreateAlertOn_LogsError(o, cfg, severity, title, category, t, r, full) ==
  IF ~cfg.enableAlerts THEN o
  ELSE SaveToStorage(
         LogOn(RecordMetricOn(
                 [o EXCEPT !.alerts = Append(@, Alert(AlertId(t, r), severity, title,
                                                      t, category))],
                 cfg,
                 Metric("alert.count", 1, t,
                        << <<"severity", severity>>, <<"category", category>> >>, ""),
                 r, full),
               cfg, "error", title, t, full),
         full)

\* createAlert(severity, title, message, category) at time t, r the random
\* part of its id
CreateAlertOn(o, cfg, severity, title, category, t, r, full) ==
  IF ~cfg.enableAlerts THEN o
  ELSE SaveToStorage(
         LogOn(RecordMetricOn(
                 [o EXCEPT !.alerts = Append(@, Alert(AlertId(t, r), severity, title,
                                                      t, category))],
                 cfg,
                 Metric("alert.count", 1, t,
                        << <<"severity", severity>>, <<"category", category>> >>, ""),
                 r, full),
               cfg, IF severity \in {"critical", "error"} THEN "error" ELSE "warn",
               title, t, full),
         full)

PlaceholderAlerted(o, cfg, m, r, full) ==
  IF m.name = "placeholder.count" /\ m.value > 0
  THEN CreateAlertOn(o, cfg,
                     IF m.value > cfg.alertThresholds.placeholderCount
                     THEN "error" ELSE "warning",
                     "Placeholder Data Detected", "placeholder", m.timestamp, r, full)
  ELSE o

QualityAlerted(o, cfg, m, r, full) ==
  IF m.name = "data_quality.score" /\ m.value < cfg.alertThresholds.dataQualityScore
  THEN CreateAlertOn(o, cfg, "warning", "Low Data Quality Score", "data_quality",
                     m.timestamp, r, full)
  ELSE o

LatencyAlerted_AtThreshold(o, cfg, m, r, full) ==
  IF /\ NameIncludes(m.name, <<"d","u","r","a","t","i","o","n">>) \/ NameIncludes(m.name, <<"l","a","t","e","n","c","y">>)
     /\ m.value >= cfg.alertThresholds.latencyMs
  THEN CreateAlertOn(o, cfg, "warning", "High Latency Detected", "performance",
                     m.timestamp, r, full)
  ELSE o

\* the latency rule of checkMetricThresholds
LatencyAlerted(o, cfg, m, r, full) ==
  IF /\ NameIncludes(m.name, <<"d","u","r","a","t","i","o","n">>) \/ NameIncludes(m.name, <<"l","a","t","e","n","c","y">>)
     /\ m.value > cfg.alertThresholds.latencyMs
  THEN CreateAlertOn(o, cfg, "warning", "High Latency Detected", "performance",
                     m.timestamp, r, full)
  ELSE o

CheckMetricThresholds_Repeated(o, cfg, m, r, full) ==
  QualityAlerted(PlaceholderAlerted(LatencyAlerted(LatencyAlerted(o, cfg, m, r, full),
                                                   cfg, m, r, full),
                                    cfg, m, r, full),
                 cfg, m, r, full)

\* checkMetricThresholds(metric): the three rules, in order
CheckMetricThresholds(o, cfg, m, r, full) ==
  QualityAlerted(PlaceholderAlerted(LatencyAlerted(o, cfg, m, r, full),
                                    cfg, m, r, full),
                 cfg, m, r, full)

\* recordMetric for the metric m
RecordMetricOn(o, cfg, m, r, full) ==
  IF ~cfg.enableMetrics THEN o
  ELSE SaveToStorage(CheckMetricThresholds(PushMetric(o, m), cfg, m, r, full), full)

\* tagKeys.every(k => m.tags?.[k] === tags[k]): every tag of the call is a
\* tag of the metric, with the same value
TagsMatch(metricTags, tags) ==
  \A i \in 1..Len(tags) : \E j \in 1..Len(metricTags) : metricTags[j] = tags[i]

\* getLatestMetric(name, tags): the value of the last metric of that name
\* whose tags match, null when there is none or its value is 0; without tags
\* (or with none in them) every metric of the name matches
GetLatestMetric(metrics, name, tags) ==
  LET filtered == SelectSeq(metrics, LAMBDA m : m.name = name /\ TagsMatch(m.tags, tags))
  IN IF filtered = <<>> \/ filtered[Len(filtered)].value = 0 THEN Null
     ELSE [k |-> "number", v |-> filtered[Len(filtered)].value]

\* current || 0
OrZero(current) == IF current = Null THEN 0 ELSE current.v

\* increment(name, tags) and decrement(name, tags)
IncrementOn(o, cfg, name, tags, t, r, full) ==
  RecordMetricOn(o, cfg, Metric(name, OrZero(GetLatestMetric(o.metrics, name, tags)) + 1,
                                t, tags, ""), r, full)
DecrementOn(o, cfg, name, tags, t, r, full) ==
  RecordMetricOn(o, cfg, Metric(name, OrZero(GetLatestMetric(o.metrics, name, tags)) - 1,
                                t, tags, ""), r, full)

\* alerts.find(a => a.id === alertId): its index, or 0
FindAlert(alerts, id) ==
  IF \E i \in 1..Len(alerts) : alerts[i].id = id
  THEN CHOOSE i \in 1..Len(alerts) :
         alerts[i].id = id /\ \A j \in 1..(i - 1) : alerts[j].id # id
  ELSE 0

Resolved(alert, t) == [alert EXCEPT !.resolved = TRUE, !.resolvedAt = t]

ResolveFound_Restamp(o, i, t, full) ==
  IF i # 0
  THEN SaveToStorage([o EXCEPT !.alerts[i] = Resolved(@, t)], full)
  ELSE o

\* resolveAlert once find returned the alert at index i
ResolveFound(o, i, t, full) ==
  IF i # 0 /\ ~o.alerts[i].resolved
  THEN SaveToStorage([o EXCEPT !.alerts[i] = Resolved(@, t)], full)
  ELSE o

\* resolveAlert(alertId)
ResolveAlertOn(o, id, t, full) == ResolveFound(o, FindAlert(o.alerts, id), t, full)

KeepsAlert_ByTimestamp(a, cutoff) == a.timestamp > cutoff

\* the entries a retention sweep keeps
KeepsAlert(a, cutoff) ==
  IF a.resolved /\ a.resolvedAt # NoTime /\ a.resolvedAt # 0
  THEN a.resolvedAt > cutoff ELSE a.timestamp > cutoff

\* cleanup() at time t
CleanupOn(o, cfg, t, full) ==
  SaveToStorage(
    [o EXCEPT
       !.metrics = SelectSeq(@, LAMBDA m :
                     m.timestamp > t - cfg.metricRetentionDays * 24 * 60 * 60),
       !.logs = SelectSeq(@, LAMBDA l :
                     l.timestamp > t - cfg.logRetentionDays * 24 * 60 * 60),
       !.alerts = SelectSeq(@, LAMBDA a :
                     KeepsAlert(a, t - cfg.metricRetentionDays * 24 * 60 * 60))],
    full)

ErrorOn_Increment(o, cfg, message, t, r, full) ==
  IncrementOn(LogOn(o, cfg, "error", message, t, full), cfg, "error.count",
              << <<"level", "error">> >>, t, r, full)

\* error(message): the log entry, then the error.count metric
ErrorOn(o, cfg, message, t, r, full) ==
  RecordMetricOn(LogOn(o, cfg, "error", message, t, full), cfg,
                 Metric("error.count", 1, t, << <<"level", "error">> >>, ""), r, full)

(***************************************************************************)
(* Health checks (observability.ts:406-430).  healthChecks is the Map in   *)
(* insertion order: one result for each name.                              *)
(***************************************************************************)
HealthCheck(name, status, t) == [name |-> name, status |-> status, timestamp |-> t]

SetHealthCheck_KeepFirst(checks, check) ==
  IF \E i \in 1..Len(checks) : checks[i].name = check.name
  THEN checks
  ELSE Append(checks, check)

\* healthChecks.set(check.name, check)
SetHealthCheck(checks, check) ==
  IF \E i \in 1..Len(checks) : checks[i].name = check.name
  THEN [i \in 1..Len(checks) |-> IF checks[i].name = check.name THEN check ELSE checks[i]]
  ELSE Append(checks, check)

\* registerHealthCheck(name, check) where check() returns the status
RegisterHealthCheckOn(o, cfg, name, status, t, r, full) ==
  IF ~cfg.enableHealthChecks THEN o
  ELSE SaveToStorage(
         RecordMetricOn([o EXCEPT !.healthChecks = SetHealthCheck(@, HealthCheck(name, status, t))],
                        cfg,
                        Metric("health.check", IF status = "healthy" THEN 1 ELSE 0, t,
                               << <<"name", name>> >>, ""),
                        r, full),
         full)

\* isSystemHealthy()
IsSystemHealthy(o) ==
  \A i \in 1..Len(o.healthChecks) : o.healthChecks[i].status = "healthy"

\* the data_quality check of runHealthChecks: the share of the log entries
\* that are errors of the last hour, against alertThresholds.errorRate (in
\* hundredths)
DataQualityStatus(o, cfg, t) ==
  LET errorLogs == SelectSeq(o.logs, LAMBDA l : l.level = "error" /\ l.timestamp > t - 60 * 60)
  IN IF Len(errorLogs) * 100
          < cfg.alertThresholds.errorRate * (IF Len(o.logs) > 1 THEN Len(o.logs) ELSE 1)
     THEN "healthy" ELSE "degraded"

\* runHealthChecks(): indexeddb, localStorage and data_quality, in this
\* order; dbExists is !!window.indexedDB
RunHealthChecksOn(o, cfg, dbExists, t, r, full) ==
  LET first == RegisterHealthCheckOn(o, cfg, "indexeddb",
                                     IF dbExists THEN "healthy" ELSE "unhealthy", t, r, full)
      second == RegisterHealthCheckOn(first, cfg, "localStorage",
                                      IF full THEN "unhealthy" ELSE "healthy", t, r, full)
  IN RegisterHealthCheckOn(second, cfg, "data_quality", DataQualityStatus(second, cfg, t),
                           t, r, full)

(***************************************************************************)
(* Tracing (observability.ts:287-339).  A Span is an object shared by the  *)
(* caller and the trace that lists it: the variable `spans` holds the      *)
(* objects in creation order and a trace lists their indices.  traces is   *)
(* the Map in insertion order.  The clock ticks in seconds and durations   *)
(* are metric values in milliseconds.                                      *)
(***************************************************************************)
\* '' and undefined, as an id
NoId == <<>>
\* generateTraceId() and generateSpanId()
TraceId(t, r) == <<t, r>>
SpanId(r) == <<r>>

\* the object startSpan builds; status "" when it sets none
Span(traceId, spanId, parentSpanId, operation, startTime, status) ==
  [traceId |-> traceId, spanId |-> spanId, parentSpanId |-> parentSpanId,
   operation |-> operation, startTime |-> startTime, endTime |-> NoTime,
   duration |-> NoTime, status |-> status, error |-> FALSE]

\* getTraceBySpan(spanId): the first trace that lists a span with that id
GetTraceBySpan(traces, objects, spanId) ==
  LET hits == {i \in 1..Len(traces) :
                 \E k \in 1..Len(traces[i].spans) :
                   objects[traces[i].spans[k]].spanId = spanId}
  IN IF hits = {} THEN NoId
     ELSE traces[CHOOSE i \in hits : \A j \in hits : i <= j].traceId

ChosenTraceId_New(traces, objects, parentSpanId, t, r) == TraceId(t, r)

\* the traceId startSpan chooses, r being the random part of a new one
ChosenTraceId(traces, objects, parentSpanId, t, r) ==
  IF parentSpanId # NoId /\ GetTraceBySpan(traces, objects, parentSpanId) # NoId
  THEN GetTraceBySpan(traces, objects, parentSpanId)
  ELSE TraceId(t, r)

\* traces.get(traceId).push(span), after traces.set(traceId, []) for a new id
TracePush(traces, traceId, i) ==
  IF \E k \in 1..Len(traces) : traces[k].traceId = traceId
  THEN [k \in 1..Len(traces) |->
         IF traces[k].traceId = traceId
         THEN [traces[k] EXCEPT !.spans = Append(@, i)] ELSE traces[k]]
  ELSE Append(traces, [traceId |-> traceId, spans |-> <<i>>])

\* the span startSpan(operation, parentSpanId) returns
StartedSpan(o, cfg, objects, operation, parentSpanId, t, r, rs) ==
  IF ~cfg.enableTracing THEN Span(NoId, NoId, NoId, operation, t, "")
  ELSE Span(ChosenTraceId(o.traces, objects, parentSpanId, t, r), SpanId(rs),
            parentSpanId, operation, t, "ok")

\* the engine after startSpan stored its span as object i
StartSpanOn(o, cfg, span, i) ==
  IF ~cfg.enableTracing THEN o
  ELSE [o EXCEPT !.traces = TracePush(@, span.traceId, i)]

MsPerSecond == 1000

\* the span after endSpan(span, error) at time t
Ended(cfg, span, failed, t) ==
  IF ~cfg.enableTracing THEN span
  ELSE [span EXCEPT !.endTime = t, !.duration = t - span.startTime,
                    !.status = IF failed THEN "error" ELSE @,
                    !.error = IF failed THEN TRUE ELSE @]

OperationTag(span) == << <<"operation", span.operation>> >>

SpanMetric_AlwaysDuration(span, failed, t) ==
  Metric("span.duration", span.duration * MsPerSecond, t, OperationTag(span), "ms")

\* the metric endSpan records for the span it has stamped
SpanMetric(span, failed, t) ==
  IF failed THEN Metric("span.errors", 1, t, OperationTag(span), "")
  ELSE Metric("span.duration", span.duration * MsPerSecond, t, OperationTag(span), "ms")

\* the engine after endSpan has stamped `span`
EndSpanOn(o, cfg, span, failed, t, r, full) ==
  IF ~cfg.enableTracing THEN o
  ELSE SaveToStorage(RecordMetricOn(o, cfg, SpanMetric(span, failed, t), r, full), full)

\* [...values].sort((a, b) => a - b): ascending, equal values in recorded
\* order; the two sorted halves are merged by the place each element takes
RECURSIVE SortAscending(_), CountBelow(_, _, _, _, _)
\* how many elements of the ascending b lie below x (or at x, with orEqual),
\* given that the first lo do and those after hi do not
CountBelow(b, x, orEqual, lo, hi) ==
  IF lo >= hi THEN lo
  ELSE LET mid == (lo + hi + 1) \div 2
       IN IF b[mid] < x \/ (orEqual /\ b[mid] = x)
          THEN CountBelow(b, x, orEqual, mid, hi)
          ELSE CountBelow(b, x, orEqual, lo, mid - 1)
\* a and b merged, placeA[i] being the place a[i] takes: after the elements
\* of b below it
MergePlaced(a, b, placeA) ==
  [p \in 1..(Len(a) + Len(b)) |->
     LET k == CountBelow(placeA, p, TRUE, 0, Len(a))
     IN IF k > 0 /\ placeA[k] = p THEN a[k] ELSE b[p - k]]
MergeSorted(a, b) ==
  MergePlaced(a, b, [i \in 1..Len(a) |-> i + CountBelow(b, a[i], FALSE, 0, Len(b))])
SortAscending(values) ==
  IF Len(values) <= 1 THEN values
  ELSE MergeSorted(SortAscending(SubSeq(values, 1, Len(values) \div 2)),
                   SortAscending(SubSeq(values, Len(values) \div 2 + 1, Len(values))))

\* sorted.reduce((a, b) => a + b, 0), over positions lo..hi
RECURSIVE SumOf(_, _, _)
SumOf(values, lo, hi) ==
  IF lo > hi THEN 0
  ELSE IF lo = hi THEN values[lo]
  ELSE SumOf(values, lo, (lo + hi) \div 2) + SumOf(values, (lo + hi) \div 2 + 1, hi)

\* Math.floor(count * 0.5), Math.floor(count * 0.95), Math.floor(count * 0.99),
\* with the factor in hundredths: for a count up to the window limit the
\* double product rounds to the same integer part as the exact one
PercentileIndex_Rounded(count, hundredths) == (count * hundredths + 50) \div 100

PercentileIndex(count, hundredths) == (count * hundredths) \div 100

\* sorted[i] of a JavaScript array: undefined outside it
ElementAt(sorted, i) ==
  IF i + 1 \in DOMAIN sorted THEN [k |-> "number", v |-> sorted[i + 1]] ELSE Undefined

\* getMetricStats(name): null without a window; the mean is kept as the sum
\* and the count it is the quotient of
GetMetricStatsOf(agg, name) ==
  IF name \notin DOMAIN agg \/ agg[name] = <<>> THEN Null
  ELSE LET sorted == SortAscending(agg[name])
           count == Len(sorted)
       IN [k |-> "stats",
           v |-> [count |-> count,
                  min |-> ElementAt(sorted, 0),
                  max |-> ElementAt(sorted, count - 1),
                  mean |-> [sum |-> SumOf(sorted, 1, count), count |-> count],
                  p50 |-> ElementAt(sorted, PercentileIndex(count, 50)),
                  p95 |-> ElementAt(sorted, PercentileIndex(count, 95)),
                  p99 |-> ElementAt(sorted, PercentileIndex(count, 99))]]

\* a new engine on an empty localStorage, and any engine after reset()
EmptyEngine ==
  [metrics |-> <<>>, logs |-> <<>>, alerts |-> <<>>, metricAggregates |-> <<>>,
   traces |-> <<>>, healthChecks |-> <<>>, storage |-> NoSnapshot]

(***************************************************************************)
(* State                                                                   *)
(***************************************************************************)
VARIABLES
  config,     \* ProductionSafety.config (and the config of its detector)
  lastIndex,  \* lastIndex of each regular expression of PLACEHOLDER_PATTERNS
  lastCall,   \* the latest call of the safety layer under config, with its result
  memo,       \* an earlier performSafetyCheck call, kept for comparison
  now,        \* the clock: Date.now(), in seconds of the modelled minute
  contracts,  \* SchemaRegistry.contracts
  registrations, \* per key, the contracts passed to the last two register calls
  regCall,    \* the latest call of the registry, with its result
  obsConfig,  \* ObservabilitySystem.config
  engine,     \* the collections of the engine and the snapshot in localStorage
  storageFull, \* localStorage.setItem throws
  obsCall,    \* the latest call of the engine
  spans,      \* the Span objects startSpan returned, in creation order
  retired,    \* the instances resetObservability dropped: config and collections
  taskStore,  \* useTaskStore: tasks, lists, validationErrors, safetyEnabled
  docStore,   \* useDocumentStore: currentDocument, isLoading, error, ...
  localStorage, \* the items doc-manager-tasks and doc-manager-lists
  db,         \* the documents in IndexedDB
  inflight,   \* the documents handed to db.put that it has not settled
  storeCall   \* the latest call of a store

safetyVars == <<config, lastIndex, lastCall, memo>>
registryVars == <<contracts, registrations, regCall>>
obsVars == <<obsConfig, engine, storageFull, obsCall, spans, retired>>
storeVars == <<taskStore, docStore, localStorage, db, inflight, storeCall>>
vars ==
  <<config, lastIndex, lastCall, memo, now, contracts, registrations, regCall,
    obsConfig, engine, storageFull, obsCall, spans, retired,
    taskStore, docStore, localStorage, db, inflight, storeCall>>

\* the most alerts and metrics an engine holds before a call that adds some
MaxAlerts == 2
MaxMetrics == 2

\* new ObservabilitySystem(cfg) on an empty localStorage
BuiltEngine(cfg, full) ==
  /\ obsConfig = cfg
  /\ engine = EmptyEngine
  /\ storageFull = full
  /\ obsCall = [fn |-> "none", id |-> <<0, 0>>, found |-> "absent", at |-> 0]
  /\ spans = <<>>
  /\ retired = <<>>

\* getObservability(): the default configuration
InitObs == BuiltEngine(DEFAULT_CONFIG, FALSE)

NoItem == [present |-> FALSE, value |-> <<>>]

\* the latest call of a store and how it ended
StoreCall(fn, outcome) == [fn |-> fn, outcome |-> outcome]

\* the stores after the module loaded on an empty localStorage and database
InitStore ==
  /\ taskStore = [tasks |-> <<>>, lists |-> <<DefaultList(0)>>,
                  validationErrors |-> <<>>, safetyEnabled |-> TRUE]
  /\ docStore = [currentDocument |-> Null, isLoading |-> FALSE, error |-> "",
                 validationErrors |-> <<>>, safetyEnabled |-> TRUE]
  /\ localStorage = [k \in {"doc-manager-tasks", "doc-manager-lists"} |-> NoItem]
  /\ db = {}
  /\ inflight = <<>>
  /\ storeCall = StoreCall("none", "none")

\* the keys contracts are registered and looked up under
Keys == {"task", "taskList"}

NoValidation == [isValid |-> TRUE, errors |-> <<>>, warnings |-> <<>>]
RegistryCall(fn, key, data, at, result) ==
  [fn |-> fn, key |-> key, data |-> data, at |-> at, result |-> result]

\* new SchemaRegistry(): no contract
InitRegistry ==
  /\ contracts = <<>>
  /\ registrations = [k \in Keys |-> <<>>]
  /\ regCall = RegistryCall("none", "", Undefined, 0, NoValidation)

Environments == {"production", "prod", "staging", "development"}

\* SafetyConfig, the fields the code reads
Configs ==
  [environment : Environments, blockPlaceholders : BOOLEAN,
   requireDataContracts : BOOLEAN, enableObservability : BOOLEAN]

\* the defaults of createProductionSafety (productionSafety.ts:679-688)
DefaultConfig(env) ==
  [environment |-> env, blockPlaceholders |-> TRUE,
   requireDataContracts |-> TRUE, enableObservability |-> TRUE]

NoSafetyResult ==
  [isSafe |-> TRUE, environment |-> "", checks |-> <<>>,
   recommendations |-> <<>>, blockedActions |-> <<>>]

\* a call record: the function, its arguments, the lastIndex values it ran
\* under, and what it returned
CallRecord(fn, operation, data, li, safety, errors) ==
  [fn |-> fn, operation |-> operation, data |-> data, li |-> li,
   safety |-> safety, errors |-> errors]

NoCall ==
  CallRecord("none", "", Undefined, [n \in RegExpNames |-> 0], NoSafetyResult, <<>>)

\* a freshly loaded module: every lastIndex is 0
LoadedSafety(envs) ==
  /\ config \in {DefaultConfig(e) : e \in envs}
  /\ lastIndex = [n \in RegExpNames |-> 0]
  /\ lastCall = NoCall
  /\ memo = NoCall
  /\ now = 0

InitSafety ==
  /\ LoadedSafety(Environments)
  /\ InitRegistry
  /\ InitObs
  /\ InitStore

(***************************************************************************)
(* Operations of the safety layer                                          *)
(***************************************************************************)
\* the call fn(operation, data) returned r: the patterns keep the lastIndex it
\* left, and the call is recorded
Returned(fn, operation, data, r) ==
  /\ lastCall' = CallRecord(fn, operation, data, lastIndex,
                            IF fn = "performSafetyCheck" THEN r.result
                            ELSE NoSafetyResult,
                            IF fn = "performSafetyCheck" THEN <<>> ELSE r.errors)
  /\ lastIndex' = r.li
  /\ UNCHANGED <<now, registryVars, obsVars, storeVars>>

\* safety.performSafetyCheck(operation, data)
CallPerformSafetyCheck(operation, data) ==
  /\ Returned("performSafetyCheck", operation, data,
              PerformSafetyCheck(operation, data, config, lastIndex))
  /\ UNCHANGED <<config, memo>>

\* safety.detectPlaceholders(data)
CallDetectPlaceholders(data) ==
  /\ Returned("detectPlaceholders", "", data,
              DetectPlaceholders(data, config, lastIndex))
  /\ UNCHANGED <<config, memo>>

\* detector.detect(value), with no context
CallDetect(value) ==
  /\ Returned("detect", "", value, Detect(value, <<>>, config, lastIndex))
  /\ UNCHANGED <<config, memo>>

\* safety.updateConfig(updates): the merged configuration is cfg.  lastCall
\* and memo hold calls made under the current configuration only.
UpdateConfig(cfg) ==
  /\ cfg # config
  /\ config' = cfg
  /\ lastCall' = NoCall
  /\ memo' = NoCall
  /\ UNCHANGED <<lastIndex, now, registryVars, obsVars, storeVars>>

Next ==
  \/ \E op \in Operations, d \in DataValues : CallPerformSafetyCheck(op, d)
  \/ \E d \in DataValues : CallDetectPlaceholders(d)
  \/ \E s \in InputStrings : CallDetect(Str(s))
  \/ \E cfg \in Configs : UpdateConfig(cfg)

Spec == InitSafety /\ [][Next]_vars


(***************************************************************************)
(* The same layer under a configuration that never changes: calls of       *)
(* performSafetyCheck and detectPlaceholders in any order, any of the      *)
(* former remembered in memo.                                              *)
(***************************************************************************)
PureData ==
  {Str(S_mock), TitleRecord(S_mock), TitleRecord(S_TBD), TitleRecord(S_Report),
   DocumentRecord(S_Report, S_mock), Str(S_todo)}

\* keep the latest performSafetyCheck call for a later comparison
Remember ==
  /\ lastCall.fn = "performSafetyCheck"
  /\ memo # lastCall
  /\ memo' = lastCall
  /\ UNCHANGED <<config, lastIndex, lastCall, now, registryVars, obsVars, storeVars>>

NextPure ==
  \/ \E d \in PureData : CallPerformSafetyCheck("save", d)
  \/ \E d \in PureData : CallDetectPlaceholders(d)
  \/ Remember

SpecPure == InitSafety /\ [][NextPure]_vars

(***************************************************************************)
(* The registry on its own: contracts registered and replaced under two    *)
(* keys, records validated against them, and the clock.                    *)
(***************************************************************************)
\* the last two elements of a sequence
LastTwo(q) == IF Len(q) <= 2 THEN q ELSE SubSeq(q, Len(q) - 1, Len(q))

\* registry.register(key, contract)
Register(key, name) ==
  /\ contracts' = RegistryRegister(contracts, key, name, now)
  /\ registrations' = [registrations EXCEPT ![key] = LastTwo(Append(@, name))]
  /\ regCall' = RegistryCall("register", key, Undefined, now, NoValidation)
  /\ UNCHANGED <<safetyVars, now, obsVars, storeVars>>

\* the call registry.validate(key, data) returned result
ValidateReturned(key, data, result) ==
  /\ regCall' = RegistryCall("validate", key, data, now, result)
  /\ UNCHANGED <<safetyVars, now, contracts, registrations, obsVars, storeVars>>

\* registry.validate(key, data)
CallValidate(key, data) ==
  ValidateReturned(key, data, RegistryValidate(contracts, key, data, now))

\* time passes
Tick ==
  /\ now < MaxNow
  /\ now' = now + 1
  /\ UNCHANGED <<safetyVars, registryVars, obsVars, storeVars>>

NextRegistry ==
  \/ \E k \in Keys, c \in RegistryContracts : Register(k, c)
  \/ \E k \in Keys, d \in RegistryData : CallValidate(k, d)
  \/ Tick

InitRegistrySpec ==
  /\ LoadedSafety({"production"})
  /\ InitRegistry
  /\ InitObs
  /\ InitStore

SpecRegistry == InitRegistrySpec /\ [][NextRegistry]_vars


(***************************************************************************)
(* The observability engine on its own: alerts raised and resolved,        *)
(* metrics recorded against the latency threshold, retention sweeps,       *)
(* reset, and the clock.                                                   *)
(***************************************************************************)
\* the random suffixes generateId can draw
Randoms == {0, 1}
AlertIds == {AlertId(DateNow(t), r) : t \in 0..MaxNow, r \in Randoms}
\* an id no alert was given
UnknownId == AlertId(0, 0)
StoredIds(alerts) == {alerts[i].id : i \in 1..Len(alerts)}

\* the state of the alert an id finds: "absent", "unresolved" or "resolved"
AlertState(alerts, id) ==
  IF FindAlert(alerts, id) = 0 THEN "absent"
  ELSE IF alerts[FindAlert(alerts, id)].resolved THEN "resolved" ELSE "unresolved"

ObsCall(fn, id, found, at) == [fn |-> fn, id |-> id, found |-> found, at |-> at]

\* the number of values in the rolling windows
RECURSIVE WindowSizes(_, _)
WindowSizes(agg, names) ==
  IF names = {} THEN 0
  ELSE LET n == CHOOSE x \in names : TRUE
       IN Len(agg[n]) + WindowSizes(agg, names \ {n})

\* the entries a collection of n holds beyond the last multiple of a limit
Beyond(n, limit) == n % limit

\* the engine has room for the entries one more call adds: it holds few
\* entries, or few beyond the limits of the snapshot and of the windows
HasRoom(o) ==
  /\ Beyond(Len(o.alerts), AlertSnapshotLimit) < MaxAlerts
  /\ Beyond(Len(o.metrics), MetricSnapshotLimit) < MaxMetrics
  /\ Beyond(WindowSizes(o.metricAggregates, DOMAIN o.metricAggregates), AggregateLimit)
       < MaxMetrics

\* obs.createAlert(severity, title, message, category)
CreateAlert(severity, category, r) ==
  /\ HasRoom(engine)
  /\ engine' = CreateAlertOn(engine, obsConfig, severity, "Alert", category,
                             DateNow(now), r, storageFull)
  /\ obsCall' = ObsCall("createAlert", AlertId(DateNow(now), r), "absent", DateNow(now))
  /\ UNCHANGED <<safetyVars, registryVars, now, obsConfig, storageFull,
                 spans, retired, storeVars>>

\* obs.resolveAlert(alertId)
ResolveAlert(id) ==
  /\ id \in StoredIds(engine.alerts) \cup {UnknownId}
  /\ engine' = ResolveAlertOn(engine, id, DateNow(now), storageFull)
  /\ obsCall' = ObsCall("resolveAlert", id, AlertState(engine.alerts, id), DateNow(now))
  /\ UNCHANGED <<safetyVars, registryVars, now, obsConfig, storageFull,
                 spans, retired, storeVars>>

\* obs.recordMetric(name, value)
RecordMetric(name, value, r) ==
  /\ HasRoom(engine)
  /\ engine' = RecordMetricOn(engine, obsConfig,
                              Metric(name, value, DateNow(now), NoTags, ""),
                              r, storageFull)
  /\ obsCall' = ObsCall("recordMetric", UnknownId, "absent", DateNow(now))
  /\ UNCHANGED <<safetyVars, registryVars, now, obsConfig, storageFull,
                 spans, retired, storeVars>>

\* the hourly sweep
Cleanup ==
  /\ engine' = CleanupOn(engine, obsConfig, DateNow(now), storageFull)
  /\ obsCall' = ObsCall("cleanup", UnknownId, "absent", DateNow(now))
  /\ UNCHANGED <<safetyVars, registryVars, now, obsConfig, storageFull,
                 spans, retired, storeVars>>

\* obs.reset(): the collections are emptied and the snapshot is removed
Reset ==
  /\ engine' = EmptyEngine
  /\ obsCall' = ObsCall("reset", UnknownId, "absent", DateNow(now))
  /\ UNCHANGED <<safetyVars, registryVars, now, obsConfig, storageFull,
                 spans, retired, storeVars>>

\* time passes
ObsTick ==
  /\ now < MaxNow
  /\ now' = now + 1
  /\ UNCHANGED <<safetyVars, registryVars, obsVars, storeVars>>

NextObs ==
  \/ \E r \in Randoms : CreateAlert("critical", "security", r)
  \/ \E id \in AlertIds \cup {UnknownId} : ResolveAlert(id)
  \/ \E v \in {500, 1500}, r \in Randoms : RecordMetric("save.duration", v, r)
  \/ Cleanup
  \/ Reset
  \/ ObsTick

\* an engine is built with the default configuration or with a retention of
\* no days, on a localStorage that accepts writes or throws on them
InitObsSpec ==
  /\ LoadedSafety({"production"})
  /\ InitRegistry
  /\ \E cfg \in {DEFAULT_CONFIG, [DEFAULT_CONFIG EXCEPT !.metricRetentionDays = 0]},
        full \in BOOLEAN : BuiltEngine(cfg, full)
  /\ InitStore

SpecObs == InitObsSpec /\ [][NextObs]_vars

(***************************************************************************)
(* Tracing on its own: root spans started and ended, with or without an     *)
(* error, while the clock moves.                                           *)
(***************************************************************************)
\* the most Span objects handed out
MaxSpans == 2
SpanOperations == {"save", "load"}

\* the latest call of the tracing API: the span object it returned or was
\* given, and whether endSpan was given an error
SpanCall(fn, index, failed, at) ==
  [fn |-> fn, index |-> index, failed |-> failed, at |-> at]

\* obs.startSpan(operation, parentSpanId), r and rs being the random parts of
\* the trace id and of the span id
StartSpanCalled(operation, parentSpanId, r, rs) ==
  /\ spans' = Append(spans, StartedSpan(engine, obsConfig, spans, operation,
                                        parentSpanId, DateNow(now), r, rs))
  /\ engine' = StartSpanOn(engine, obsConfig, spans'[Len(spans) + 1], Len(spans) + 1)
  /\ obsCall' = SpanCall("startSpan", Len(spans) + 1, FALSE, DateNow(now))
  /\ UNCHANGED <<safetyVars, registryVars, now, obsConfig, storageFull, retired,
                 storeVars>>

\* obs.startSpan(operation, parentSpanId) while few spans were handed out
StartSpan(operation, parentSpanId, r, rs) ==
  /\ Len(spans) < MaxSpans
  /\ StartSpanCalled(operation, parentSpanId, r, rs)

\* obs.endSpan(span, error) for the span object i
EndSpan(i, failed, r) ==
  /\ i \in 1..Len(spans)
  /\ HasRoom(engine)
  /\ spans' = [spans EXCEPT ![i] = Ended(obsConfig, @, failed, DateNow(now))]
  /\ engine' = EndSpanOn(engine, obsConfig, spans'[i], failed, DateNow(now), r,
                         storageFull)
  /\ obsCall' = SpanCall("endSpan", i, failed, DateNow(now))
  /\ UNCHANGED <<safetyVars, registryVars, now, obsConfig, storageFull, retired,
                 storeVars>>

NextTrace ==
  \/ \E op \in SpanOperations : StartSpan(op, NoId, 0, 0)
  \/ \E i \in 1..MaxSpans, failed \in BOOLEAN : EndSpan(i, failed, 0)
  \/ ObsTick

\* an engine with the default configuration, or with tracing or metrics
\* switched off
InitTraceSpec ==
  /\ LoadedSafety({"production"})
  /\ InitRegistry
  /\ \E cfg \in {DEFAULT_CONFIG, [DEFAULT_CONFIG EXCEPT !.enableTracing = FALSE],
                 [DEFAULT_CONFIG EXCEPT !.enableMetrics = FALSE]},
        full \in BOOLEAN : BuiltEngine(cfg, full)
  /\ InitStore

SpecTrace == InitTraceSpec /\ [][NextTrace]_vars

(***************************************************************************)
(* Metrics on their own: values recorded under names the latency rule      *)
(* reads and under one it does not, at and above the latency threshold.    *)
(***************************************************************************)
RecordedNames == {"save.duration", "api.latency", "task.count"}
RecordedValues == {1000, 1500}

NextMetrics ==
  \/ \E name \in RecordedNames, v \in RecordedValues : RecordMetric(name, v, 0)
  \/ ObsTick

\* an engine with the default configuration, or with alerts switched off
InitMetricsSpec ==
  /\ LoadedSafety({"production"})
  /\ InitRegistry
  /\ \E cfg \in {DEFAULT_CONFIG, [DEFAULT_CONFIG EXCEPT !.enableAlerts = FALSE]} :
       BuiltEngine(cfg, FALSE)
  /\ InitStore

SpecMetrics == InitMetricsSpec /\ [][NextMetrics]_vars

(***************************************************************************)
(* Statistics of a rolling window: engines that recorded a window of       *)
(* values under one name, and getMetricStats read from them.               *)
(***************************************************************************)
MaxWindow == 4
WindowValues == {1, 2, 3}

\* 1..100, each once, in a shuffled order
HundredValues == [i \in 1..100 |-> ((i * 37) % 100) + 1]

StatsWindows ==
  UNION {[1..n -> WindowValues] : n \in 0..MaxWindow} \cup {HundredValues}

\* the engine after recordMetric(name, values[i]) for each i in turn, for a
\* name no threshold rule reads and a window within the limit
Recorded(name, values) ==
  IF values = <<>> THEN EmptyEngine
  ELSE LET o == [EmptyEngine EXCEPT
                   !.metrics = [i \in 1..Len(values) |->
                                  Metric(name, values[i], DateNow(0), NoTags, "")],
                   !.metricAggregates = [n \in {name} |-> values]]
       IN SaveToStorage(o, FALSE)

StatsCall(name, stats) == [fn |-> "getMetricStats", name |-> name, stats |-> stats]

\* obs.getMetricStats(name)
GetMetricStats(name) ==
  /\ obsCall' = StatsCall(name, GetMetricStatsOf(engine.metricAggregates, name))
  /\ UNCHANGED <<safetyVars, registryVars, now, obsConfig, engine, storageFull,
                 spans, retired, storeVars>>

NextStats == \E name \in {"task.count", "save.duration"} : GetMetricStats(name)

InitStatsSpec ==
  /\ LoadedSafety({"production"})
  /\ InitRegistry
  /\ obsConfig = DEFAULT_CONFIG
  /\ \E values \in StatsWindows : engine = Recorded("task.count", values)
  /\ storageFull = FALSE
  /\ obsCall = [fn |-> "none", id |-> <<0, 0>>, found |-> "absent", at |-> 0]
  /\ spans = <<>>
  /\ retired = <<>>
  /\ InitStore

SpecStats == InitStatsSpec /\ [][NextStats]_vars

(***************************************************************************)
(* Data quality: DataQualityAnalyzer.analyze over small datasets.  A score *)
(* between 0 and 1 is kept as the reduced fraction it is the quotient of;  *)
(* thresholds and weights are in hundredths.                               *)
(***************************************************************************)
MIN_COMPLETENESS == 95
MIN_UNIQUE_RATIO == 90
MIN_DATA_FRESHNESS_HOURS == 24

Gcd(a, b) ==
  CHOOSE g \in 1..b : /\ a % g = 0 /\ b % g = 0
                      /\ \A h \in (g + 1)..b : a % h # 0 \/ b % h # 0
\* n / d, d > 0
Ratio(n, d) == [num |-> n \div Gcd(n, d), den |-> d \div Gcd(n, d)]
\* the literal 1
One == [num |-> 1, den |-> 1]
\* r < hundredths / 100
RatioBelow(r, hundredths) == r.num * 100 < hundredths * r.den

\* typeof
TypeOf(x) ==
  CASE x.k \in {"null", "object", "array"} -> "object"
    [] OTHER -> x.k

\* the items of a dataset that are objects
ObjectItems(dataset) == SelectSeq(dataset, IsObjectLike)

CheckCompleteness(dataset) ==
  IF dataset = <<>> THEN One
  ELSE LET items == ObjectItems(dataset)
           populated(item) ==
             Len(SelectSeq(Entries(item),
                           LAMBDA e : e[2].k \notin {"null", "undefined"} /\ e[2] # Str(<<>>)))
           totalFields == SumOf([i \in 1..Len(items) |-> Len(Entries(items[i]))], 1, Len(items))
           populatedFields == SumOf([i \in 1..Len(items) |-> populated(items[i])], 1, Len(items))
       IN IF totalFields > 0 THEN Ratio(populatedFields, totalFields) ELSE One

CheckUniqueness(dataset, idField) ==
  IF dataset = <<>> THEN One
  ELSE Ratio(Cardinality({StringOf(Get(dataset[i], idField)) : i \in 1..Len(dataset)}),
             Len(dataset))

CheckConsistency(dataset) ==
  IF dataset = <<>> THEN One
  ELSE LET items == ObjectItems(dataset)
           entries == UNION {{Entries(items[i])[j] : j \in 1..Len(Entries(items[i]))} :
                               i \in 1..Len(items)}
           fields == {e[1] : e \in entries}
           types(key) == {TypeOf(e[2]) : e \in {x \in entries : x[1] = key}}
           consistentFields == Cardinality({key \in fields : Cardinality(types(key)) = 1})
       IN IF fields # {} THEN Ratio(consistentFields, Cardinality(fields)) ELSE One

TimestampFields == <<"updatedAt", "createdAt", "timestamp", "date">>

\* new Date(value).getTime(): a number is its own time; the strings of the
\* model hold no date, and give NaN
GetTime(x) == IF x.k = "number" THEN [nan |-> FALSE, time |-> x.v] ELSE [nan |-> TRUE, time |-> 0]

\* the first timestamp field of the item that holds a truthy value, as a
\* sequence of at most one value
FirstTimestamp(item) ==
  LET held == SelectSeq(TimestampFields, LAMBDA f : Truthy(Get(item, f)))
  IN IF held = <<>> THEN <<>> ELSE <<Get(item, held[1])>>

CheckTimeliness_StrictEmpty(dataset, t) ==
  LET threshold == MIN_DATA_FRESHNESS_HOURS * 60 * 60
      stamps == [i \in 1..Len(ObjectItems(dataset)) |-> FirstTimestamp(ObjectItems(dataset)[i])]
      totalCount == Cardinality({i \in DOMAIN stamps : stamps[i] # <<>>})
      recentCount ==
        Cardinality({i \in DOMAIN stamps :
                       /\ stamps[i] # <<>>
                       /\ ~GetTime(stamps[i][1]).nan
                       /\ t - GetTime(stamps[i][1]).time < threshold})
  IN IF totalCount > 0 THEN Ratio(recentCount, totalCount) ELSE Ratio(0, 1)

\* checkTimeliness at time t
CheckTimeliness(dataset, t) ==
  LET threshold == MIN_DATA_FRESHNESS_HOURS * 60 * 60
      stamps == [i \in 1..Len(ObjectItems(dataset)) |-> FirstTimestamp(ObjectItems(dataset)[i])]
      totalCount == Cardinality({i \in DOMAIN stamps : stamps[i] # <<>>})
      recentCount ==
        Cardinality({i \in DOMAIN stamps :
                       /\ stamps[i] # <<>>
                       /\ ~GetTime(stamps[i][1]).nan
                       /\ t - GetTime(stamps[i][1]).time < threshold})
  IN IF totalCount > 0 THEN Ratio(recentCount, totalCount) ELSE One

QualityWeights ==
  [completeness |-> 30, uniqueness |-> 25, consistency |-> 20, validity |-> 15,
   timeliness |-> 10]

\* twice the weighted sum times 100, over the product of the denominators
WeightedSum(m) ==
  LET names == <<"completeness", "uniqueness", "consistency", "validity", "timeliness">>
      den == m.completeness.den * m.uniqueness.den * m.consistency.den
               * m.validity.den * m.timeliness.den
  IN [num |-> SumOf([i \in 1..5 |->
                       QualityWeights[names[i]] * m[names[i]].num * (den \div m[names[i]].den)],
                    1, 5),
      den |-> den]

\* Math.round of the weighted sum times 100: the integer nearest to the exact
\* sum; where the exact sum lies on a half, the sum of the doubles may fall on
\* either side of it, and either neighbour is a possible score
CalculateOverallScore(m) ==
  LET num == WeightedSum(m).num
      den == WeightedSum(m).den
      rounded == (2 * num + den) \div (2 * den)
  IN IF (2 * num) % den = 0 /\ ((2 * num) \div den) % 2 = 1
     THEN {rounded - 1, rounded}
     ELSE {rounded}

Anomaly(type, severity, field) == [type |-> type, severity |-> severity, field |-> field]

\* the five scores of analyze(dataset) with no schema, at time t
QualityScores(dataset, t) ==
  [completeness |-> CheckCompleteness(dataset),
   uniqueness |-> CheckUniqueness(dataset, "id"),
   consistency |-> CheckConsistency(dataset),
   validity |-> One,
   timeliness |-> CheckTimeliness(dataset, t)]

\* analyze(dataset): the metrics returned for the scores m and the overall
\* score computed from them; the description of an anomaly is left out
Analyze(m, overallScore) ==
     [completeness |-> m.completeness,
      uniqueness |-> m.uniqueness,
      consistency |-> m.consistency,
      validity |-> m.validity,
      timeliness |-> m.timeliness,
      overallScore |-> overallScore,
      anomaliesDetected |->
        (IF RatioBelow(m.completeness, MIN_COMPLETENESS)
         THEN <<Anomaly("structural", "high", "")>> ELSE <<>>)
        \o (IF RatioBelow(m.uniqueness, MIN_UNIQUE_RATIO)
            THEN <<Anomaly("structural", "high", "id")>> ELSE <<>>)
        \o (IF RatioBelow(m.consistency, 90)
            THEN <<Anomaly("semantic", "medium", "")>> ELSE <<>>)]

MaxDataset == 3

QualityRecord(id, title, updatedAt) ==
  Obj(<< <<"id", id>>, <<"title", title>>, <<"updatedAt", updatedAt>> >>)

\* records with a fresh, a stale, a missing and an unreadable time, a
\* repeated id, an empty and a null title, and an item that is no object
QualityItems ==
  {QualityRecord(Str(<<"t","-","1">>), Str(S_Report), Num(DateNow(0))),
   QualityRecord(Str(<<"t","-","1">>), Str(S_empty), Num(DateNow(0) - 25 * 60 * 60)),
   QualityRecord(Str(<<"t","-","2">>), Null, Undefined),
   QualityRecord(Num(7), Str(S_Report), Str(S_TBD)),
   Str(S_Report)}

Datasets == UNION {[1..n -> QualityItems] : n \in 0..MaxDataset}

QualityCall(dataset, metrics) ==
  [fn |-> "analyzeQuality", dataset |-> dataset, metrics |-> metrics]

\* safety.analyzeQuality(dataset), once in a behaviour
AnalyzeQuality(dataset) ==
  /\ lastCall = NoCall
  /\ \E score \in CalculateOverallScore(QualityScores(dataset, DateNow(now))) :
       lastCall' = QualityCall(dataset,
                               Analyze(QualityScores(dataset, DateNow(now)), score))
  /\ UNCHANGED <<config, lastIndex, memo, now, registryVars, obsVars, storeVars>>

NextQuality == \E dataset \in Datasets : AnalyzeQuality(dataset)

InitQualitySpec ==
  /\ LoadedSafety({"production"})
  /\ InitRegistry
  /\ InitObs
  /\ InitStore

SpecQuality == InitQualitySpec /\ [][NextQuality]_vars

(***************************************************************************)
(* Persistence: every operation that writes the snapshot, on a             *)
(* localStorage that accepts writes or throws on them, and changes between *)
(* the two.                                                                *)
(***************************************************************************)
\* the most log entries an engine holds before a call that logs
MaxLogs == 2
LogLevels == {"warn"}
HealthStatuses == {"healthy", "unhealthy"}

LogCall(fn, level, at) == [fn |-> fn, level |-> level, at |-> at]
HealthCall(fn, name, status, at) == [fn |-> fn, name |-> name, status |-> status, at |-> at]

\* obs.debug / info / warn (message)
Log(level) ==
  /\ Beyond(Len(engine.logs), LogSnapshotLimit) < MaxLogs
  /\ engine' = LogOn(engine, obsConfig, level, "message", DateNow(now), storageFull)
  /\ obsCall' = LogCall("log", level, DateNow(now))
  /\ UNCHANGED <<safetyVars, registryVars, now, obsConfig, storageFull,
                 spans, retired, storeVars>>

\* obs.error(message)
Error(r) ==
  /\ Beyond(Len(engine.logs), LogSnapshotLimit) < MaxLogs
  /\ HasRoom(engine)
  /\ engine' = ErrorOn(engine, obsConfig, "message", DateNow(now), r, storageFull)
  /\ obsCall' = LogCall("error", "error", DateNow(now))
  /\ UNCHANGED <<safetyVars, registryVars, now, obsConfig, storageFull,
                 spans, retired, storeVars>>

\* obs.registerHealthCheck(name, check), the check returning `status`
RegisterHealthCheck(name, status, r) ==
  /\ HasRoom(engine)
  /\ engine' = RegisterHealthCheckOn(engine, obsConfig, name, status, DateNow(now), r,
                                     storageFull)
  /\ obsCall' = HealthCall("registerHealthCheck", name, status, DateNow(now))
  /\ UNCHANGED <<safetyVars, registryVars, now, obsConfig, storageFull,
                 spans, retired, storeVars>>

\* the quota of localStorage is reached, or space is freed
StorageChanges ==
  /\ storageFull' = ~storageFull
  /\ UNCHANGED <<safetyVars, registryVars, now, obsConfig, engine, obsCall,
                 spans, retired, storeVars>>

NextStorage ==
  \/ RecordMetric("save.duration", 1500, 0)
  \/ \E level \in LogLevels : Log(level)
  \/ Error(0)
  \/ spans = <<>> /\ StartSpan("save", NoId, 0, 0)
  \/ EndSpan(1, FALSE, 0)
  \/ CreateAlert("critical", "security", 0)
  \/ \E id \in AlertIds \cup {UnknownId} : ResolveAlert(id)
  \/ RegisterHealthCheck("indexeddb", "unhealthy", 0)
  \/ Cleanup
  \/ StorageChanges

SpecStorage == InitObsSpec /\ [][NextStorage]_vars

(***************************************************************************)
(* The singleton and its timers.  The constructor schedules cleanup()      *)
(* every hour and runHealthChecks() every five minutes; `retired` holds    *)
(* the instances resetObservability() dropped, whose intervals nothing     *)
(* clears.  engine.storage is the one item doc-manager-observability that  *)
(* every instance writes.                                                   *)
(***************************************************************************)
\* the most instances dropped
MaxRetired == 1

\* the instance o seen by its own timers: its collections and the shared item
OnSharedStorage(o, storage) == [o EXCEPT !.storage = storage]
\* the collections of an instance, the shared item set aside
Collections(o) == [o EXCEPT !.storage = NoSnapshot]

\* the 5-minute timer of the live instance fires
RunHealthChecks(dbExists) ==
  /\ obsConfig.enableHealthChecks
  /\ HasRoom(engine)
  /\ engine' = RunHealthChecksOn(engine, obsConfig, dbExists, DateNow(now), 0, storageFull)
  /\ obsCall' = ObsCall("runHealthChecks", UnknownId, "absent", DateNow(now))
  /\ UNCHANGED <<safetyVars, registryVars, now, obsConfig, storageFull,
                 spans, retired, storeVars>>

\* resetObservability(), and the instance the next getObservability() builds
ResetObservability ==
  /\ Len(retired) < MaxRetired
  /\ retired' = Append(retired, [config |-> obsConfig, engine |-> Collections(EmptyEngine)])
  /\ engine' = EmptyEngine
  /\ obsConfig' = DEFAULT_CONFIG
  /\ obsCall' = ObsCall("resetObservability", UnknownId, "absent", DateNow(now))
  /\ UNCHANGED <<safetyVars, registryVars, now, storageFull, spans, storeVars>>

\* the hourly timer of the dropped instance k fires
RetiredCleanup(k) ==
  /\ k \in 1..Len(retired)
  /\ LET result == CleanupOn(OnSharedStorage(retired[k].engine, engine.storage),
                             retired[k].config, DateNow(now), storageFull)
     IN /\ retired' = [retired EXCEPT ![k].engine = Collections(result)]
        /\ engine' = [engine EXCEPT !.storage = result.storage]
  /\ obsCall' = ObsCall("retired.cleanup", UnknownId, "absent", DateNow(now))
  /\ UNCHANGED <<safetyVars, registryVars, now, obsConfig, storageFull, spans, storeVars>>

\* the 5-minute timer of the dropped instance k fires
RetiredRunHealthChecks(k, dbExists) ==
  /\ k \in 1..Len(retired)
  /\ retired[k].config.enableHealthChecks
  /\ HasRoom(retired[k].engine)
  /\ LET result == RunHealthChecksOn(OnSharedStorage(retired[k].engine, engine.storage),
                                     retired[k].config, dbExists, DateNow(now), 0,
                                     storageFull)
     IN /\ retired' = [retired EXCEPT ![k].engine = Collections(result)]
        /\ engine' = [engine EXCEPT !.storage = result.storage]
  /\ obsCall' = ObsCall("retired.runHealthChecks", UnknownId, "absent", DateNow(now))
  /\ UNCHANGED <<safetyVars, registryVars, now, obsConfig, storageFull, spans, storeVars>>

NextTeardown ==
  \/ RecordMetric("task.count", 1000, 0)
  \/ Cleanup
  \/ \E dbExists \in BOOLEAN : RunHealthChecks(dbExists)
  \/ ResetObservability
  \/ \E k \in 1..MaxRetired : RetiredCleanup(k)
  \/ \E k \in 1..MaxRetired, dbExists \in BOOLEAN : RetiredRunHealthChecks(k, dbExists)
  \/ ObsTick

InitTeardownSpec ==
  /\ LoadedSafety({"production"})
  /\ InitRegistry
  /\ InitObs
  /\ InitStore

SpecTeardown == InitTeardownSpec /\ [][NextTeardown]_vars

(***************************************************************************)
(* Health checks on their own: results registered under two names, the     *)
(* built-in sweep, reset() and the isSystemHealthy() query.                *)
(***************************************************************************)
HealthNames == {"indexeddb", "custom"}
AllHealthStatuses == {"healthy", "degraded", "unhealthy"}

QueryCall(fn, healthy, at) == [fn |-> fn, healthy |-> healthy, at |-> at]

\* obs.isSystemHealthy()
QueryHealth ==
  /\ obsCall' = QueryCall("isSystemHealthy", IsSystemHealthy(engine), DateNow(now))
  /\ UNCHANGED <<safetyVars, registryVars, now, obsConfig, engine, storageFull,
                 spans, retired, storeVars>>

NextHealth ==
  \/ \E name \in HealthNames, status \in AllHealthStatuses :
       RegisterHealthCheck(name, status, 0)
  \/ \E dbExists \in BOOLEAN : RunHealthChecks(dbExists)
  \/ Reset
  \/ QueryHealth

\* an engine with the default configuration, or with health checks off
InitHealthSpec ==
  /\ LoadedSafety({"production"})
  /\ InitRegistry
  /\ \E cfg \in {DEFAULT_CONFIG, [DEFAULT_CONFIG EXCEPT !.enableHealthChecks = FALSE]} :
       BuiltEngine(cfg, FALSE)
  /\ InitStore

SpecHealth == InitHealthSpec /\ [][NextHealth]_vars

(***************************************************************************)
(* The snapshot at its limits: an engine that holds exactly as many        *)
(* metrics, log entries and alerts as a snapshot keeps, or none, and the   *)
(* operations that add to them.                                            *)
(***************************************************************************)
\* the engine after AlertSnapshotLimit createAlert calls, then recordMetric
\* and log calls up to MetricSnapshotLimit metrics and LogSnapshotLimit log
\* entries, one call a second, the last one second before the model starts
FilledEngine ==
  LET alertTime(i) == DateNow(0) - 2000 + i
      metricTime(i) == DateNow(0) - MetricSnapshotLimit - 1 + i
      logTime(i) == DateNow(0) - LogSnapshotLimit - 1 + i
      o == [EmptyEngine EXCEPT
              !.alerts = [i \in 1..AlertSnapshotLimit |->
                            Alert(AlertId(alertTime(i), 0), "critical", "Alert",
                                  alertTime(i), "security")],
              !.metrics = [i \in 1..MetricSnapshotLimit |->
                             IF i <= AlertSnapshotLimit
                             THEN Metric("alert.count", 1, alertTime(i),
                                         << <<"severity", "critical">>,
                                            <<"category", "security">> >>, "")
                             ELSE Metric("task.count", 1, metricTime(i), NoTags, "")],
              !.logs = [i \in 1..LogSnapshotLimit |->
                          IF i <= AlertSnapshotLimit
                          THEN LogEntry("error", "Alert", alertTime(i))
                          ELSE LogEntry("info", "message", logTime(i))],
              !.metricAggregates =
                 [n \in {"alert.count", "task.count"} |->
                    IF n = "alert.count" THEN [i \in 1..AlertSnapshotLimit |-> 1]
                    ELSE [i \in 1..(MetricSnapshotLimit - AlertSnapshotLimit) |-> 1]]]
  IN SaveToStorage(o, FALSE)

NextSnapshot ==
  \/ RecordMetric("save.duration", 1500, 0)
  \/ \E level \in LogLevels : Log(level)
  \/ CreateAlert("critical", "security", 0)
  \/ \E id \in AlertIds \cup {UnknownId} : ResolveAlert(id)
  \/ Cleanup
  \/ StorageChanges

InitSnapshotSpec ==
  /\ LoadedSafety({"production"})
  /\ InitRegistry
  /\ obsConfig = DEFAULT_CONFIG
  /\ engine \in {EmptyEngine, FilledEngine}
  /\ storageFull \in BOOLEAN
  /\ obsCall = [fn |-> "none", id |-> <<0, 0>>, found |-> "absent", at |-> 0]
  /\ spans = <<>>
  /\ retired = <<>>
  /\ InitStore

SpecSnapshot == InitSnapshotSpec /\ [][NextSnapshot]_vars










(***************************************************************************)
(* The host stores (stores/documentStore.ts): the task store and the       *)
(* document store, each with its own ProductionSafety, built with the same *)
(* arguments.  The stores keep their records in memory, in localStorage    *)
(* (tasks and lists) and in IndexedDB (documents).  The spans, log entries *)
(* and metrics the handlers hand to the observability engine do not feed   *)
(* back into a store: they are the engine's operations above.              *)
(***************************************************************************)
\* the registries after the stores were loaded (documentStore.ts:18-19, 297-298)
DocumentStoreContracts ==
  RegistryRegister(RegistryRegister(<<>>, "document", "DocumentContract", 0),
                   "documentMetadata", "DocumentMetadataContract", 0)
TaskStoreContracts ==
  RegistryRegister(RegistryRegister(<<>>, "task", "TaskContract", 0),
                   "taskList", "TaskListContract", 0)

\* the most documents awaiting IndexedDB before a call that adds one
MaxInflight == 1

\* localStorage.setItem(key, JSON.stringify(value))
SetItem(storage, key, value) ==
  [storage EXCEPT ![key] = [present |-> TRUE, value |-> value]]

\* db.put(STORE_NAME, document), the key path being metadata.id
DocumentId(document) == Get(Get(document, "metadata"), "id")
Put(documents, document) ==
  {d \in documents : DocumentId(d) # DocumentId(document)} \cup {document}

\* documentService.saveDocument(document) up to its first await: the
\* document that is put
ServiceSaved(document, t) ==
  Spread(document,
         Obj(<< <<"metadata",
                  Spread(Get(document, "metadata"),
                         Obj(<< <<"updatedAt", Str(ToISOString(t))>>,
                                <<"size", Num(Len(Get(document, "content").v))>> >>))>> >>))

\* mutant: a failed validation does not stop the handler
Proceeds_Unvalidated(safetyEnabled, isSafe, isValid) == ~safetyEnabled \/ isSafe

\* whether a write path reaches its write: with safetyEnabled it returns (or
\* throws) when the safety check is not safe, and when validation fails
Proceeds(safetyEnabled, isSafe, isValid) == ~safetyEnabled \/ (isSafe /\ isValid)

\* validation.errors.map(e => `${e.code}: ${e.message}`)
ErrorLines(errors) == [i \in 1..Len(errors) |-> <<errors[i].code, errors[i].message>>]

\* the checks of a write path, performSafetyCheck having returned checked
\* and validate validation: the outcome, the validationErrors the store is
\* left with, and the lastIndex of the patterns
Gated(safetyEnabled, checked, validation, li) ==
  IF Proceeds(safetyEnabled, checked.result.isSafe, validation.isValid)
  THEN [outcome |-> "written", validationErrors |-> <<>>,
        li |-> IF safetyEnabled THEN checked.li ELSE li]
  ELSE IF ~checked.result.isSafe
  THEN [outcome |-> "unsafe", validationErrors |-> checked.result.recommendations,
        li |-> checked.li]
  ELSE [outcome |-> "invalid", validationErrors |-> ErrorLines(validation.errors),
        li |-> checked.li]

TaskIds(tasks) == {Get(tasks[i], "id").v : i \in 1..Len(tasks)}

\* addTask after its checks
AddTaskGated(task, gate) ==
  /\ lastIndex' = gate.li
  /\ storeCall' = StoreCall("addTask", gate.outcome)
  /\ taskStore' = [taskStore EXCEPT
                     !.tasks = IF gate.outcome = "written" THEN Append(@, task) ELSE @,
                     !.validationErrors = gate.validationErrors]
  /\ localStorage' = IF gate.outcome = "written"
                     THEN SetItem(localStorage, "doc-manager-tasks",
                                  Append(taskStore.tasks, task))
                     ELSE localStorage
  /\ UNCHANGED <<config, lastCall, memo, now, registryVars, obsVars, docStore, db,
                 inflight>>

\* useTaskStore.addTask(title, listId), nanoid() returning id
AddTask(title, listId, id) ==
  /\ id \notin TaskIds(taskStore.tasks)
  /\ listId \in TaskIds(taskStore.lists)
  /\ AddTaskGated(NewTask(id, title, listId, <<"m","e","d","i","u","m">>, now),
                  Gated(taskStore.safetyEnabled,
                        PerformSafetyCheck("addTask",
                                           NewTask(id, title, listId, <<"m","e","d","i","u","m">>, now),
                                           config, lastIndex),
                        RegistryValidate(TaskStoreContracts, "task",
                                         NewTask(id, title, listId, <<"m","e","d","i","u","m">>, now), now),
                        lastIndex))

\* tasks.map(t => t.id === taskId ? updated : t)
Replaced(tasks, taskId, updated) ==
  [i \in 1..Len(tasks) |->
    IF Get(tasks[i], "id").v = taskId THEN updated ELSE tasks[i]]

\* updateTask after its checks
UpdateTaskGated(taskId, updatedTask, gate) ==
  /\ lastIndex' = gate.li
  /\ storeCall' = StoreCall("updateTask", gate.outcome)
  /\ taskStore' = [taskStore EXCEPT
                     !.tasks = IF gate.outcome = "written"
                               THEN Replaced(@, taskId, updatedTask) ELSE @,
                     !.validationErrors = gate.validationErrors]
  /\ localStorage' = IF gate.outcome = "written"
                     THEN SetItem(localStorage, "doc-manager-tasks",
                                  Replaced(taskStore.tasks, taskId, updatedTask))
                     ELSE localStorage
  /\ UNCHANGED <<config, lastCall, memo, now, registryVars, obsVars, docStore, db,
                 inflight>>

\* state.tasks.find(t => t.id === taskId): its index, or 0
FindTask(tasks, taskId) ==
  IF taskId \in TaskIds(tasks)
  THEN CHOOSE i \in 1..Len(tasks) :
         /\ Get(tasks[i], "id").v = taskId
         /\ \A j \in 1..(i - 1) : Get(tasks[j], "id").v # taskId
  ELSE 0

\* useTaskStore.updateTask(taskId, updates)
UpdateTask(taskId, updates) ==
  IF FindTask(taskStore.tasks, taskId) = 0
  THEN /\ storeCall' = StoreCall("updateTask", "missing")
       /\ UNCHANGED <<safetyVars, now, registryVars, obsVars, taskStore, docStore,
                      localStorage, db, inflight>>
  ELSE UpdateTaskGated(
         taskId,
         Spread(taskStore.tasks[FindTask(taskStore.tasks, taskId)], updates),
         Gated(taskStore.safetyEnabled,
               PerformSafetyCheck("updateTask",
                                  Spread(taskStore.tasks[FindTask(taskStore.tasks, taskId)],
                                         updates),
                                  config, lastIndex),
               RegistryValidate(TaskStoreContracts, "task",
                                Spread(taskStore.tasks[FindTask(taskStore.tasks, taskId)],
                                       updates),
                                now),
               lastIndex))

\* addList after its checks
AddListGated(list, gate) ==
  /\ lastIndex' = gate.li
  /\ storeCall' = StoreCall("addList", gate.outcome)
  /\ taskStore' = [taskStore EXCEPT
                     !.lists = IF gate.outcome = "written" THEN Append(@, list) ELSE @,
                     !.validationErrors = gate.validationErrors]
  /\ localStorage' = IF gate.outcome = "written"
                     THEN SetItem(localStorage, "doc-manager-lists",
                                  Append(taskStore.lists, list))
                     ELSE localStorage
  /\ UNCHANGED <<config, lastCall, memo, now, registryVars, obsVars, docStore, db,
                 inflight>>

\* useTaskStore.addList(name), nanoid() returning id
AddList(name, id) ==
  /\ id \notin TaskIds(taskStore.lists)
  /\ AddListGated(NewList(id, name, S_color, now),
                  Gated(taskStore.safetyEnabled,
                        PerformSafetyCheck("addList", NewList(id, name, S_color, now),
                                           config, lastIndex),
                        RegistryValidate(TaskStoreContracts, "taskList",
                                         NewList(id, name, S_color, now), now),
                        lastIndex))

\* useTaskStore.deleteTask(taskId): no check
DeleteTask(taskId) ==
  /\ taskStore' = [taskStore EXCEPT
                     !.tasks = SelectSeq(@, LAMBDA t : Get(t, "id").v # taskId)]
  /\ localStorage' = SetItem(localStorage, "doc-manager-tasks", taskStore'.tasks)
  /\ storeCall' = StoreCall("deleteTask", "written")
  /\ UNCHANGED <<safetyVars, now, registryVars, obsVars, docStore, db, inflight>>

\* enableSafety() and disableSafety() of the task store
SetTaskSafety(enabled) ==
  /\ taskStore' = [taskStore EXCEPT !.safetyEnabled = enabled]
  /\ storeCall' = StoreCall(IF enabled THEN "enableSafety" ELSE "disableSafety", "none")
  /\ UNCHANGED <<safetyVars, now, registryVars, obsVars, docStore, localStorage, db,
                 inflight>>

\* enableSafety() and disableSafety() of the document store
SetDocumentSafety(enabled) ==
  /\ docStore' = [docStore EXCEPT !.safetyEnabled = enabled]
  /\ storeCall' = StoreCall(IF enabled THEN "enableSafety" ELSE "disableSafety", "none")
  /\ UNCHANGED <<safetyVars, now, registryVars, obsVars, taskStore, localStorage, db,
                 inflight>>

\* what saveDocument leaves in the store after its checks: it throws, or
\* calls the service, which awaits the database
SaveDocumentWrites(document, gate) ==
  /\ lastIndex' = gate.li
  /\ storeCall' = StoreCall("saveDocument", gate.outcome)
  /\ docStore' = [docStore EXCEPT
                    !.isLoading = (gate.outcome = "written"),
                    !.error = IF gate.outcome = "written" THEN "" ELSE gate.outcome,
                    !.validationErrors = gate.validationErrors]
  /\ inflight' = IF gate.outcome = "written"
                 THEN Append(inflight, ServiceSaved(document, now)) ELSE inflight
  /\ UNCHANGED <<config, lastCall, memo, now, registryVars, taskStore,
                 localStorage, db>>

\* saveDocument after its checks, seen from the store
SaveDocumentGated(document, gate) ==
  /\ SaveDocumentWrites(document, gate)
  /\ UNCHANGED obsVars

\* useDocumentStore.saveDocument(document), up to the await
SaveDocument(document) ==
  /\ Len(inflight) < MaxInflight
  /\ SaveDocumentGated(document,
                       Gated(docStore.safetyEnabled,
                             PerformSafetyCheck("saveDocument", document, config,
                                                lastIndex),
                             RegistryValidate(DocumentStoreContracts, "document",
                                              document, now),
                             lastIndex))

\* what the rest of saveDocument leaves in the store once db.put resolved
PutDocumentWrites ==
  /\ inflight # <<>>
  /\ db' = Put(db, Head(inflight))
  /\ inflight' = Tail(inflight)
  /\ docStore' = [docStore EXCEPT !.currentDocument = Head(inflight),
                                  !.isLoading = FALSE]
  /\ storeCall' = StoreCall("put", "written")
  /\ UNCHANGED <<safetyVars, now, registryVars, taskStore, localStorage>>

\* db.put resolves, and saveDocument goes on after its await
PutDocument == PutDocumentWrites /\ UNCHANGED obsVars

\* what the catch of saveDocument leaves in the store once db.put rejected
PutDocumentFailsWrites ==
  /\ inflight # <<>>
  /\ inflight' = Tail(inflight)
  /\ docStore' = [docStore EXCEPT !.error = "failed", !.isLoading = FALSE]
  /\ storeCall' = StoreCall("put", "failed")
  /\ UNCHANGED <<safetyVars, now, registryVars, taskStore, localStorage, db>>

\* db.put rejects, and saveDocument catches
PutDocumentFails == PutDocumentFailsWrites /\ UNCHANGED obsVars

NextStore ==
  \/ \E title \in TaskTitles, listId \in {S_default} \cup ListNanoIds, id \in TaskNanoIds :
       AddTask(title, listId, id)
  \/ \E taskId \in TaskNanoIds, updates \in TaskUpdates : UpdateTask(taskId, updates)
  \/ \E name \in ListNames, id \in ListNanoIds : AddList(name, id)
  \/ \E taskId \in TaskNanoIds : DeleteTask(taskId)
  \/ \E enabled \in BOOLEAN : SetTaskSafety(enabled)
  \/ \E enabled \in BOOLEAN : SetDocumentSafety(enabled)
  \/ \E document \in EditedDocuments : SaveDocument(document)
  \/ PutDocument
  \/ PutDocumentFails

\* the stores are loaded in production
InitStoreSpec ==
  /\ LoadedSafety({"production"})
  /\ InitRegistry
  /\ InitObs
  /\ InitStore

SpecStore == InitStoreSpec /\ [][NextStore]_vars


(***************************************************************************)
(* Properties of the safety orchestrator and the detector                  *)
(***************************************************************************)
IsPerformSafetyCheck(c) == c.fn = "performSafetyCheck"

\* C1: in production or staging, with blockPlaceholders set and data present,
\* a performSafetyCheck(operation, data) whose detector run reports at least
\* one hit returns isSafe = false, blockedActions = [operation] and one
\* recommendation; performSafetyCheck("save", {title: "TBD"}) in production
\* is such a call.
C1_HitBlocksOperation ==
  IsPerformSafetyCheck(lastCall) =>
    /\ ( /\ config.environment \in {"production", "prod", "staging", "stage", "qa"}
         /\ config.blockPlaceholders
         /\ Truthy(lastCall.data)
         /\ Len(DetectPlaceholders(lastCall.data, config, lastCall.li).errors) > 0 )
       => /\ ~lastCall.safety.isSafe
          /\ lastCall.safety.blockedActions = <<lastCall.operation>>
          /\ Len(lastCall.safety.recommendations) = 1
    /\ ( /\ config.environment = "production"
         /\ config.blockPlaceholders
         /\ lastCall.operation = "save"
         /\ lastCall.data = TitleRecord(S_TBD) )
       => /\ ~lastCall.safety.isSafe
          /\ lastCall.safety.blockedActions = <<"save">>

C1_Witness ==
  /\ IsPerformSafetyCheck(lastCall)
  /\ config.environment = "staging"
  /\ lastCall.operation = "saveDocument"
  /\ lastCall.data = TitleRecord(S_mock)
  /\ lastCall.safety.blockedActions = <<"saveDocument">>

\* C3 (as claimed): under an unchanged configuration, two performSafetyCheck
\* calls with the same operation and data return the same isSafe, checks and
\* blockedActions, whatever was called before or in between.
C3_SameCallSameResult ==
  ( /\ IsPerformSafetyCheck(memo)
    /\ IsPerformSafetyCheck(lastCall)
    /\ memo.operation = lastCall.operation
    /\ memo.data = lastCall.data )
  => /\ memo.safety.isSafe = lastCall.safety.isSafe
     /\ memo.safety.checks = lastCall.safety.checks
     /\ memo.safety.blockedActions = lastCall.safety.blockedActions

\* C4: isSafe is true exactly when every check passed and blockedActions is
\* empty.
C4_IsSafeIsConjunction ==
  IsPerformSafetyCheck(lastCall) =>
    ( lastCall.safety.isSafe <=>
        /\ \A i \in 1..Len(lastCall.safety.checks) : lastCall.safety.checks[i].passed
        /\ lastCall.safety.blockedActions = <<>> )

C4_Witness ==
  /\ IsPerformSafetyCheck(lastCall)
  /\ ~lastCall.safety.isSafe
  /\ \E i \in 1..Len(lastCall.safety.checks) : ~lastCall.safety.checks[i].passed
  /\ \E i \in 1..Len(lastCall.safety.checks) : lastCall.safety.checks[i].passed

\* C8: detect("TBD") and detect("N/A") return a placeholder error in every
\* environment, of severity critical in production and high in development.
C8_CanonicalTokens ==
  (lastCall.fn = "detect" /\ lastCall.data \in {Str(S_TBD), Str(S_NA)}) =>
    /\ \E i \in 1..Len(lastCall.errors) : lastCall.errors[i].category = "placeholder"
    /\ \A i \in 1..Len(lastCall.errors) :
         lastCall.errors[i].category = "placeholder" =>
           /\ config.environment = "production"
                => lastCall.errors[i].severity = "critical"
           /\ config.environment = "development"
                => lastCall.errors[i].severity = "high"

C8_Witness ==
  /\ lastCall.fn = "detect"
  /\ lastCall.data = Str(S_NA)
  /\ config.environment = "production"
  /\ Len(lastCall.errors) = 1
  /\ lastCall.errors[1].severity = "critical"

RECURSIVE HoldsPlaceholderToken(_)
\* a string field somewhere in the record graph of x is a canonical token
HoldsPlaceholderToken(x) ==
  \/ x.k = "string" /\ PlaceholderValueHit(Trim(x.v))
  \/ \E i \in 1..Len(Entries(x)) : HoldsPlaceholderToken(Entries(x)[i][2])

\* C9 (as claimed): a canonical placeholder token held anywhere in the data
\* (a top-level field, a field of a nested object, an element of an array
\* field) yields a placeholder error from detectPlaceholders, and blocks
\* performSafetyCheck when it scans.
C9_TokenAnywhereIsFlagged ==
  HoldsPlaceholderToken(lastCall.data) =>
    /\ lastCall.fn = "detectPlaceholders"
         => \E i \in 1..Len(lastCall.errors) :
              lastCall.errors[i].code = <<"PLACEHOLDER_VALUE_DETECTED">>
    /\ (IsPerformSafetyCheck(lastCall) /\ ScansPlaceholders(config, lastCall.data))
         => ~lastCall.safety.isSafe

(***************************************************************************)
(* Properties of the contract registry                                     *)
(***************************************************************************)
IsValidate(c) == c.fn = "validate"

\* the contract object registered under the key of a validate call
ContractOfCall(c) == ContractNamed(contracts[c.key].contract)

\* C5: validate under a key that has no registered contract returns, for every
\* data value, isValid = false and exactly one error, whose code is
\* SCHEMA_NOT_FOUND and whose severity is critical; the call returns a result.
C5_UnregisteredKey ==
  (IsValidate(regCall) /\ regCall.key \notin DOMAIN contracts) =>
    /\ regCall.result.isValid = FALSE
    /\ Len(regCall.result.errors) = 1
    /\ regCall.result.errors[1].code = "SCHEMA_NOT_FOUND"
    /\ regCall.result.errors[1].severity = "critical"

\* a record validated under a key without a contract while the other key has one
C5_Witness ==
  /\ IsValidate(regCall)
  /\ regCall.key \notin DOMAIN contracts
  /\ DOMAIN contracts # {}
  /\ regCall.data.k = "object"
  /\ regCall.result.errors[1].code = "SCHEMA_NOT_FOUND"

\* every rule of the contract returns true on x
RulesPassOn(contract, x) ==
  \A i \in 1..Len(contract.validationRules) :
    RuleHolds(contract.validationRules[i].name, x)

\* C6 (as the code has it): for a registered contract whose schema accepts the
\* record, if every rule returns true on the value the schema parsed the
\* record to (its own keys only, defaults filled in), isValid is true; and
\* isValid is true if and only if the errors list is empty.
C6_RulesOnParsedValue ==
  (IsValidate(regCall) /\ regCall.key \in DOMAIN contracts) =>
    LET C == ContractOfCall(regCall)
        parsed == SafeParse(C.schema, regCall.data, regCall.at)
    IN /\ regCall.result.isValid <=> (regCall.result.errors = <<>>)
       /\ (parsed.success /\ RulesPassOn(C, parsed.data)) => regCall.result.isValid

\* a record with rules to pass is validated and found valid
C6_Witness ==
  /\ IsValidate(regCall)
  /\ regCall.key \in DOMAIN contracts
  /\ ContractOfCall(regCall).validationRules # <<>>
  /\ regCall.result.isValid

\* C6 (as stated): for a registered contract whose schema accepts the record r
\* and whose rules all return true on r, isValid is true; and isValid is true
\* if and only if the errors list is empty.
C6_RulesOnRecord ==
  (IsValidate(regCall) /\ regCall.key \in DOMAIN contracts) =>
    LET C == ContractOfCall(regCall)
        parsed == SafeParse(C.schema, regCall.data, regCall.at)
    IN /\ regCall.result.isValid <=> (regCall.result.errors = <<>>)
       /\ (parsed.success /\ RulesPassOn(C, regCall.data)) => regCall.result.isValid

\* the contract passed to the latest register call for a key
LatestRegistered(regs, key) == regs[key][Len(regs[key])]

\* C7: a registration replaces the contract of its key and leaves the
\* contracts of the other keys as they were; a validate call under a key is
\* decided by the schema and rules of the contract registered last under it.
C7_LastRegistrationDecides ==
  [][/\ regCall'.fn = "register" =>
          \A k \in DOMAIN contracts \ {regCall'.key} :
            k \in DOMAIN contracts' /\ contracts'[k] = contracts[k]
     /\ (IsValidate(regCall') /\ registrations'[regCall'.key] # <<>>) =>
          regCall'.result =
            ValidateTable[LatestRegistered(registrations', regCall'.key)]
                         [regCall'.data][regCall'.at]]_vars

\* a record validated under a key registered twice, where the replaced
\* contract would have decided otherwise, the other key holding a contract too
C7_Witness ==
  /\ IsValidate(regCall)
  /\ DOMAIN contracts = Keys
  /\ Len(registrations[regCall.key]) = 2
  /\ ValidateTable[registrations[regCall.key][1]][regCall.data][regCall.at]
       # regCall.result


(***************************************************************************)
(* Properties of the observability engine                                  *)
(***************************************************************************)
\* a step in which resolveAlert(id) runs: the call it records was made now, on
\* the alert list of the state it starts in
IsResolveStep ==
  /\ obsCall'.fn = "resolveAlert"
  /\ now' = now
  /\ obsCall'.at = DateNow(now)
  /\ obsCall'.found = AlertState(engine.alerts, obsCall'.id)

\* the alert list after the first alert with this id is resolved at time t
AlertsResolving(alerts, id, t) ==
  [alerts EXCEPT ![FindAlert(alerts, id)] = Resolved(@, t)]

\* C10: resolveAlert is idempotent.  resolveAlert(id) on a stored unresolved
\* alert sets resolved and stamps resolvedAt with the time of the call and
\* changes no other alert; resolveAlert(id) on an alert that is already
\* resolved, at any later time, leaves resolvedAt, every other alert and the
\* rest of the engine as they were; resolveAlert on an id that is not stored
\* changes nothing.
C10_ResolveIsIdempotent ==
  [][IsResolveStep =>
       CASE obsCall'.found = "unresolved" ->
              /\ engine'.alerts = AlertsResolving(engine.alerts, obsCall'.id, DateNow(now))
              /\ engine'.metrics = engine.metrics
              /\ engine'.logs = engine.logs
         [] obsCall'.found = "resolved" -> engine' = engine
         [] obsCall'.found = "absent" -> engine' = engine]_vars

\* a second resolveAlert(id) has run, later than the first one stamped the
\* alert, while another alert is stored beside it
C10_Witness ==
  /\ obsCall.fn = "resolveAlert"
  /\ obsCall.found = "resolved"
  /\ Len(engine.alerts) >= 2
  /\ FindAlert(engine.alerts, obsCall.id) # 0
  /\ engine.alerts[FindAlert(engine.alerts, obsCall.id)].resolved
  /\ engine.alerts[FindAlert(engine.alerts, obsCall.id)].resolvedAt < obsCall.at
  /\ \E j \in 1..Len(engine.alerts) : ~engine.alerts[j].resolved

(***************************************************************************)
(* Properties of the host stores                                           *)
(***************************************************************************)
\* performSafetyCheck(operation, record) returns isSafe = true and
\* validate(key, record) returns isValid = true, called in the current state
PassesGate(operation, key, record, registry) ==
  /\ PerformSafetyCheck(operation, record, config, lastIndex).result.isSafe
  /\ RegistryValidate(registry, key, record, now).isValid

\* the step leaves localStorage and the tasks and lists of the store alone
TaskStoreUntouched ==
  /\ localStorage' = localStorage
  /\ taskStore'.tasks = taskStore.tasks
  /\ taskStore'.lists = taskStore.lists

\* C2: in saveDocument, addTask, updateTask and addList, while safetyEnabled
\* is true, the write (localStorage.setItem, documentService.saveDocument and
\* the db.put it awaits) is made only for a record for which
\* performSafetyCheck returned isSafe = true and validate then returned
\* isValid = true; a call in which either fails writes nothing and leaves
\* the persisted collection as it was.
C2_WritesAreGated ==
  [][/\ (storeCall'.fn = "addTask" /\ taskStore.safetyEnabled) =>
          \/ TaskStoreUntouched
          \/ \E r \in StoreTasks :
               /\ PassesGate("addTask", "task", r, TaskStoreContracts)
               /\ taskStore'.tasks = Append(taskStore.tasks, r)
               /\ taskStore'.lists = taskStore.lists
               /\ localStorage' = SetItem(localStorage, "doc-manager-tasks",
                                          taskStore'.tasks)
     /\ (storeCall'.fn = "updateTask" /\ taskStore.safetyEnabled) =>
          \/ TaskStoreUntouched
          \/ \E r \in StoreTasks, i \in 1..Len(taskStore.tasks) :
               /\ PassesGate("updateTask", "task", r, TaskStoreContracts)
               /\ taskStore'.tasks = [taskStore.tasks EXCEPT ![i] = r]
               /\ taskStore'.lists = taskStore.lists
               /\ localStorage' = SetItem(localStorage, "doc-manager-tasks",
                                          taskStore'.tasks)
     /\ (storeCall'.fn = "addList" /\ taskStore.safetyEnabled) =>
          \/ TaskStoreUntouched
          \/ \E r \in StoreLists :
               /\ PassesGate("addList", "taskList", r, TaskStoreContracts)
               /\ taskStore'.lists = Append(taskStore.lists, r)
               /\ taskStore'.tasks = taskStore.tasks
               /\ localStorage' = SetItem(localStorage, "doc-manager-lists",
                                          taskStore'.lists)
     /\ (storeCall'.fn = "saveDocument" /\ docStore.safetyEnabled) =>
          /\ db' = db
          /\ \/ inflight' = inflight
             \/ \E d \in EditedDocuments :
                  /\ PassesGate("saveDocument", "document", d, DocumentStoreContracts)
                  /\ inflight' = Append(inflight, ServiceSaved(d, now))
     /\ db' # db =>
          /\ inflight # <<>>
          /\ db' = Put(db, Head(inflight))
          /\ inflight' = Tail(inflight)]_vars

\* in production, with the checks enabled, an updateTask passed its safety
\* check and was stopped by validation, beside a task and a list that were
\* written
C2_Witness ==
  /\ config.environment = "production"
  /\ taskStore.safetyEnabled
  /\ storeCall = StoreCall("updateTask", "invalid")
  /\ Len(taskStore.tasks) = 1
  /\ Len(taskStore.lists) = 2
  /\ localStorage["doc-manager-tasks"] = [present |-> TRUE, value |-> taskStore.tasks]
  /\ localStorage["doc-manager-lists"] = [present |-> TRUE, value |-> taskStore.lists]
  /\ RegistryValidate(TaskStoreContracts, "task", taskStore.tasks[1], now).isValid

(***************************************************************************)
(* C11: completing a span                                                  *)
(***************************************************************************)
\* the metrics a step appended
NewMetrics == SubSeq(engine'.metrics, Len(engine.metrics) + 1, Len(engine'.metrics))

\* the completion metrics among ms
CompletionMetrics(ms) ==
  SelectSeq(ms, LAMBDA m : m.name \in {"span.duration", "span.errors"})

\* the step is endSpan, under tracing, of a span that startSpan returned under
\* tracing and that was not ended before
IsFirstEnd ==
  /\ obsCall'.fn = "endSpan"
  /\ obsConfig.enableTracing
  /\ spans[obsCall'.index].status = "ok"
  /\ spans[obsCall'.index].endTime = NoTime

\* the span of the step carries the stamps of a completion
CompletionStamped ==
  /\ spans'[obsCall'.index].endTime = DateNow(now)
  /\ spans'[obsCall'.index].duration =
       spans'[obsCall'.index].endTime - spans'[obsCall'.index].startTime
  /\ spans'[obsCall'.index].status = IF obsCall'.failed THEN "error" ELSE "ok"

\* the step recorded one completion metric: span.errors for an error, else
\* span.duration, tagged with the operation of the span
CompletionRecorded ==
  /\ Len(CompletionMetrics(NewMetrics)) = 1
  /\ CompletionMetrics(NewMetrics)[1].name =
       (IF obsCall'.failed THEN "span.errors" ELSE "span.duration")
  /\ CompletionMetrics(NewMetrics)[1].tags =
       << <<"operation", spans[obsCall'.index].operation>> >>

\* C11 as stated: with tracing enabled, a span started and then ended without
\* an error has status ok, endTime set and duration = endTime - startTime and
\* a span.duration metric tagged with its operation is recorded; ended with
\* an error it has status error, the same duration law, and span.errors is
\* recorded instead
C11_CompletionAlwaysRecorded ==
  [][IsFirstEnd => CompletionStamped /\ CompletionRecorded]_vars

\* C11, amended: the span is stamped as stated whenever tracing is enabled;
\* the completion metric (span.duration, or span.errors for an error, tagged
\* with the operation) is recorded when metrics are enabled too, and no
\* metric at all is recorded when they are not
C11_CompletionRecordedWithMetrics ==
  [][IsFirstEnd =>
       /\ CompletionStamped
       /\ IF obsConfig.enableMetrics THEN CompletionRecorded
          ELSE engine'.metrics = engine.metrics]_vars

\* a span started at one second was ended with an error at a later one,
\* with tracing and metrics enabled, and its span.errors metric is stored
C11_Witness ==
  /\ obsCall.fn = "endSpan"
  /\ obsCall.failed
  /\ obsConfig.enableTracing /\ obsConfig.enableMetrics
  /\ spans[obsCall.index].status = "error"
  /\ spans[obsCall.index].duration > 0
  /\ \E k \in 1..Len(engine.metrics) :
       /\ engine.metrics[k].name = "span.errors"
       /\ engine.metrics[k].tags = << <<"operation", spans[obsCall.index].operation>> >>

(***************************************************************************)
(* C12: the latency rule                                                   *)
(***************************************************************************)
\* the alerts a step appended
NewAlerts == SubSeq(engine'.alerts, Len(engine.alerts) + 1, Len(engine'.alerts))

\* the step is a recordMetric call with metrics and alerts enabled: the call
\* pushed its metric
IsRecordMetric ==
  /\ obsCall'.fn = "recordMetric"
  /\ Len(engine'.metrics) > Len(engine.metrics)
  /\ obsConfig.enableMetrics
  /\ obsConfig.enableAlerts

\* the name holds "duration" or "latency"
IsLatencyName(name) ==
  \/ Includes(MetricNameChars(name), <<"d","u","r","a","t","i","o","n">>)
  \/ Includes(MetricNameChars(name), <<"l","a","t","e","n","c","y">>)

\* C12: with metrics and alerts enabled, recordMetric(name, v) for a name
\* containing "duration" or "latency" and v above alertThresholds.latencyMs
\* appends exactly one alert: warning, performance, unresolved; for v at or
\* below the threshold the rule appends no alert; the alerts stored before
\* stay as they were
C12_LatencyRule ==
  [][IsRecordMetric =>
       /\ SubSeq(engine'.alerts, 1, Len(engine.alerts)) = engine.alerts
       /\ IF /\ IsLatencyName(engine'.metrics[Len(engine.metrics) + 1].name)
             /\ engine'.metrics[Len(engine.metrics) + 1].value
                  > obsConfig.alertThresholds.latencyMs
          THEN /\ Len(NewAlerts) = 1
               /\ NewAlerts[1].severity = "warning"
               /\ NewAlerts[1].category = "performance"
               /\ ~NewAlerts[1].resolved
               /\ NewAlerts[1].resolvedAt = NoTime
          ELSE \A k \in 1..Len(NewAlerts) : NewAlerts[k].category # "performance"]_vars

\* "api.latency" was recorded above the threshold after a value at the
\* threshold: the one alert stored is the warning of the second call
C12_Witness ==
  /\ obsCall.fn = "recordMetric"
  /\ obsConfig.enableMetrics /\ obsConfig.enableAlerts
  /\ Len(engine.metrics) = 3
  /\ engine.metrics[1].value = obsConfig.alertThresholds.latencyMs
  /\ IsLatencyName(engine.metrics[1].name)
  /\ engine.metrics[2].name = "api.latency"
  /\ engine.metrics[2].value = 1500
  /\ Len(engine.alerts) = 1
  /\ engine.alerts[1].severity = "warning"
  /\ engine.alerts[1].category = "performance"

(***************************************************************************)
(* C13: percentiles of the rolling window                                  *)
(***************************************************************************)
\* v is the element at index k (from 0) of the ascending order of the values
IsSortedElement(values, v, k) ==
  /\ \E i \in 1..Len(values) : values[i] = v
  /\ Cardinality({i \in 1..Len(values) : values[i] < v}) <= k
  /\ k < Cardinality({i \in 1..Len(values) : values[i] <= v})

\* the window getMetricStats was last called on
StatsWindow == engine.metricAggregates[obsCall.name]

\* C13: for a name whose rolling window holds n >= 1 values, getMetricStats
\* returns as p50, p95 and p99 the elements of the ascending-sorted window
\* at indices floor(n*0.5), floor(n*0.95) and floor(n*0.99), each of them an
\* index of the window; for the values 1..100 p50 is the element at sorted
\* index 50, which is 51
C13_Percentiles ==
  (/\ obsCall.fn = "getMetricStats"
   /\ obsCall.name \in DOMAIN engine.metricAggregates
   /\ Len(StatsWindow) >= 1)
  => /\ obsCall.stats.k = "stats"
     /\ obsCall.stats.v.count = Len(StatsWindow)
     /\ \A pct \in {50, 95, 99} :
          LET n == Len(StatsWindow)
              k == (n * pct) \div 100
              p == IF pct = 50 THEN obsCall.stats.v.p50
                   ELSE IF pct = 95 THEN obsCall.stats.v.p95
                   ELSE obsCall.stats.v.p99
          IN /\ k \in 0..(n - 1)
             /\ p.k = "number"
             /\ IsSortedElement(StatsWindow, p.v, k)
     /\ (\A v \in 1..100 :
           Cardinality({i \in 1..Len(StatsWindow) : StatsWindow[i] = v}) = 1)
        => obsCall.stats.v.p50.v = 51

\* the statistics of the window of 1..100 were read: p50 is 51, p95 is 96 and
\* p99 is 100
C13_Witness ==
  /\ obsCall.fn = "getMetricStats"
  /\ obsCall.name = "task.count"
  /\ engine.metricAggregates = [n \in {"task.count"} |-> HundredValues]
  /\ obsCall.stats.k = "stats"
  /\ obsCall.stats.v.count = 100
  /\ obsCall.stats.v.p50.v = 51
  /\ obsCall.stats.v.p95.v = 96
  /\ obsCall.stats.v.p99.v = 100

(***************************************************************************)
(* C14: the quality of an empty dataset                                    *)
(***************************************************************************)
\* C14: analyzeQuality([]) returns completeness, uniqueness, consistency,
\* validity and timeliness 1, overallScore 100 and no anomaly
C14_EmptyDataset ==
  (lastCall.fn = "analyzeQuality" /\ lastCall.dataset = <<>>)
  => /\ lastCall.metrics.completeness = One
     /\ lastCall.metrics.uniqueness = One
     /\ lastCall.metrics.consistency = One
     /\ lastCall.metrics.validity = One
     /\ lastCall.metrics.timeliness = One
     /\ lastCall.metrics.overallScore = 100
     /\ lastCall.metrics.anomaliesDetected = <<>>

\* the empty dataset was analysed
C14_Witness ==
  /\ lastCall.fn = "analyzeQuality"
  /\ lastCall.dataset = <<>>
  /\ lastCall.metrics.overallScore = 100
  /\ lastCall.metrics.anomaliesDetected = <<>>

(***************************************************************************)
(* C15: a failed write of the snapshot                                     *)
(***************************************************************************)
\* the collections of an engine, without the snapshot
MemoryOf(o) == [o EXCEPT !.storage = NoSnapshot]

\* the engine the call of the step leaves when localStorage accepts writes
WithStorage ==
  CASE obsCall'.fn = "recordMetric" ->
         RecordMetricOn(engine, obsConfig,
                        Metric("save.duration", 1500, DateNow(now), NoTags, ""), 0, FALSE)
    [] obsCall'.fn = "log" ->
         LogOn(engine, obsConfig, obsCall'.level, "message", DateNow(now), FALSE)
    [] obsCall'.fn = "error" ->
         ErrorOn(engine, obsConfig, "message", DateNow(now), 0, FALSE)
    [] obsCall'.fn = "endSpan" ->
         EndSpanOn(engine, obsConfig,
                   Ended(obsConfig, spans[obsCall'.index], obsCall'.failed, DateNow(now)),
                   obsCall'.failed, DateNow(now), 0, FALSE)
    [] obsCall'.fn = "createAlert" ->
         CreateAlertOn(engine, obsConfig, "critical", "Alert", "security", DateNow(now),
                       0, FALSE)
    [] obsCall'.fn = "resolveAlert" ->
         ResolveAlertOn(engine, obsCall'.id, DateNow(now), FALSE)
    [] obsCall'.fn = "registerHealthCheck" ->
         RegisterHealthCheckOn(engine, obsConfig, obsCall'.name, obsCall'.status,
                               DateNow(now), 0, FALSE)
    [] obsCall'.fn = "cleanup" -> CleanupOn(engine, obsConfig, DateNow(now), FALSE)
    [] OTHER -> engine'

\* the step is a call made while localStorage throws on writes
IsCallOnFullStorage == storageFull /\ storageFull' /\ obsCall'.fn # "none"

\* C15: while localStorage throws on writes, recordMetric, the log methods,
\* endSpan, createAlert, resolveAlert, registerHealthCheck and the retention
\* sweep return as usual: the collections end as they do when the write
\* succeeds, and the snapshot is left as it was
C15_WriteFailureContained ==
  [][IsCallOnFullStorage =>
       /\ MemoryOf(engine') = MemoryOf(WithStorage)
       /\ engine'.storage = engine.storage]_vars

\* on a full localStorage an alert was created, with its metric and its log
\* entry, then resolved; no snapshot was written
C15_Witness ==
  /\ storageFull
  /\ obsCall.fn = "resolveAlert"
  /\ Len(engine.alerts) = 1
  /\ engine.alerts[1].resolved
  /\ Len(engine.metrics) = 1
  /\ Len(engine.logs) = 1
  /\ ~engine.storage.present

(***************************************************************************)
(* C16: the timers of a dropped instance                                   *)
(***************************************************************************)
\* C16: after resetObservability() neither periodic job of the dropped
\* instance fires again: its collections stay as reset() left them, and the
\* persisted snapshot is only ever left alone, removed, or written from the
\* collections of the live instance
C16_DroppedInstanceIsSilent ==
  [][/\ \A k \in 1..Len(retired) : retired'[k] = retired[k]
     /\ engine'.storage \in {engine.storage, NoSnapshot, Snapshot(engine')}]_vars

(***************************************************************************)
(* C17: isSystemHealthy                                                    *)
(***************************************************************************)
\* the health.check metrics recorded for a name: one for each result stored
ResultsOf(name) ==
  SelectSeq(engine.metrics,
            LAMBDA m : m.name = "health.check" /\ m.tags = << <<"name", name>> >>)

\* the names a result was stored for
RegisteredNames ==
  {engine.metrics[i].tags[1][2] :
     i \in {j \in 1..Len(engine.metrics) : engine.metrics[j].name = "health.check"}}

\* C17: isSystemHealthy() returns true exactly when the result stored last for
\* every registered check is healthy (true when no check is registered)
C17_HealthyIffAllLatestHealthy ==
  obsCall.fn = "isSystemHealthy"
  => (obsCall.healthy
      <=> \A name \in RegisteredNames :
            ResultsOf(name)[Len(ResultsOf(name))].value = 1)

\* "custom" was registered unhealthy and then healthy: the query answers true
C17_Witness ==
  /\ obsCall.fn = "isSystemHealthy"
  /\ obsCall.healthy
  /\ RegisteredNames = {"custom"}
  /\ Len(ResultsOf("custom")) = 2
  /\ ResultsOf("custom")[1].value = 0
  /\ ResultsOf("custom")[2].value = 1

(***************************************************************************)
(* C18: the persisted snapshot                                             *)
(***************************************************************************)
\* kept holds the last min(Len(all), limit) entries of all, in order
IsLastOf(kept, all, limit) ==
  /\ Len(kept) = (IF Len(all) < limit THEN Len(all) ELSE limit)
  /\ \A i \in 1..Len(kept) : kept[i] = all[Len(all) - Len(kept) + i]

\* the step is a call that changed a collection, or a retention sweep, and
\* localStorage accepts writes
IsWriteOnAvailableStorage ==
  /\ ~storageFull /\ ~storageFull'
  /\ obsCall'.fn \in {"recordMetric", "log", "error", "endSpan", "createAlert",
                      "resolveAlert", "registerHealthCheck", "cleanup"}
  /\ \/ obsCall'.fn = "cleanup"
     \/ [engine' EXCEPT !.storage = NoSnapshot] # [engine EXCEPT !.storage = NoSnapshot]

\* the snapshot holds no more than 1000 metrics, 500 log entries and 100
\* alerts
WithinLimits(snapshot) ==
  /\ Len(snapshot.metrics) <= 1000
  /\ Len(snapshot.logs) <= 500
  /\ Len(snapshot.alerts) <= 100

\* C18: after a mutating operation completes with storage available the
\* snapshot holds exactly the last min(n, 1000) metrics, min(n, 500) log
\* entries and min(n, 100) alerts of the collections, in order; the snapshot
\* never holds more than 1000 metrics, 500 log entries or 100 alerts
C18_SnapshotIsBoundedTail ==
  [][/\ WithinLimits(engine'.storage)
     /\ IsWriteOnAvailableStorage =>
          /\ engine'.storage.present
          /\ IsLastOf(engine'.storage.metrics, engine'.metrics, 1000)
          /\ IsLastOf(engine'.storage.logs, engine'.logs, 500)
          /\ IsLastOf(engine'.storage.alerts, engine'.alerts, 100)]_vars

\* the collections outgrew every limit and the snapshot, written after the
\* last call, holds the newest 1000, 500 and 100 entries
C18_Witness ==
  /\ ~storageFull
  /\ obsCall.fn = "recordMetric"
  /\ Len(engine.metrics) = 1002
  /\ Len(engine.logs) = 501
  /\ Len(engine.alerts) = 101
  /\ Len(engine.storage.metrics) = 1000
  /\ Len(engine.storage.logs) = 500
  /\ Len(engine.storage.alerts) = 100
  /\ engine.storage.alerts[100] = engine.alerts[101]
  /\ engine.storage.metrics[1] = engine.metrics[3]

(***************************************************************************)
(* C19, C20: schema errors and rule errors of validate                     *)
(***************************************************************************)
\* what the schema of the contract of the latest validate call makes of its data
ParsedOfCall == SafeParse(ContractOfCall(regCall).schema, regCall.data, regCall.at)

\* C19: when the schema rejects the data, validate runs no rule: isValid is
\* false and the errors are exactly one SCHEMA_VALIDATION_ERROR per issue of
\* the schema, each with severity high and category schema_violation
C19_SchemaRejects ==
  (IsValidate(regCall) /\ regCall.key \in DOMAIN contracts /\ ~ParsedOfCall.success) =>
    /\ regCall.result.isValid = FALSE
    /\ Len(regCall.result.errors) = Len(ParsedOfCall.issues)
    /\ Len(regCall.result.errors) >= 1
    /\ \A i \in 1..Len(regCall.result.errors) :
         /\ regCall.result.errors[i].code = "SCHEMA_VALIDATION_ERROR"
         /\ regCall.result.errors[i].severity = "high"
         /\ regCall.result.errors[i].category = "schema_violation"
         /\ regCall.result.errors[i].location = ParsedOfCall.issues[i].path

\* {title: ""} under the contract with two rules: one schema error, though the
\* record names no owner
C19_Witness ==
  /\ IsValidate(regCall)
  /\ regCall.key \in DOMAIN contracts
  /\ contracts[regCall.key].contract = "OwnedTitleContract"
  /\ regCall.data = TitleRecord(S_empty)
  /\ ~RulesPassOn(OwnedTitleContract, regCall.data)
  /\ Len(regCall.result.errors) = 1
  /\ regCall.result.errors[1].code = "SCHEMA_VALIDATION_ERROR"

\* the rules of the contract of the latest validate call that fail on the
\* parsed data, in registration order
FailingRules ==
  SelectSeq(ContractOfCall(regCall).validationRules,
            LAMBDA rule : ~RuleHolds(rule.name, ParsedOfCall.data))

\* C20: when the schema accepts the data, the errors are exactly one
\* CUSTOM_VALIDATION_FAILED per failing rule, in registration order, each with
\* the errorMessage of its rule and the severity the rule declares, or medium
\* when it declares none; a failing rule does not hide a later one
C20_RuleErrorsInOrder ==
  (IsValidate(regCall) /\ regCall.key \in DOMAIN contracts /\ ParsedOfCall.success) =>
    /\ Len(regCall.result.errors) = Len(FailingRules)
    /\ \A i \in 1..Len(FailingRules) :
         /\ regCall.result.errors[i].code = "CUSTOM_VALIDATION_FAILED"
         /\ regCall.result.errors[i].message = <<FailingRules[i].errorMessage>>
         /\ regCall.result.errors[i].severity =
              (IF FailingRules[i].severity = "" THEN "medium"
               ELSE FailingRules[i].severity)

\* a record fails both rules of its contract: two errors, the first with the
\* severity medium its rule did not declare
C20_Witness ==
  /\ IsValidate(regCall)
  /\ regCall.key \in DOMAIN contracts
  /\ contracts[regCall.key].contract = "OwnedTitleContract"
  /\ Len(regCall.result.errors) = 2
  /\ regCall.result.errors[1].message = <<"The record names no owner">>
  /\ regCall.result.errors[1].severity = "medium"
  /\ regCall.result.errors[2].code = "CUSTOM_VALIDATION_FAILED"
(***************************************************************************)
(* The rolling window at its limit: an engine that recorded nothing, or    *)
(* one value or AggregateLimit values under one name, then more values     *)
(* under that name and another, and getMetricStats read in between.        *)
(***************************************************************************)
\* the engine after recordMetric("task.count", i) for i = 1, 2, ... up to the
\* limit of a window
FullWindow == Recorded("task.count", [i \in 1..AggregateLimit |-> i])

WindowNames == {"task.count", "api.latency"}

NextWindow ==
  \/ \E name \in WindowNames, v \in {0, 2000} : RecordMetric(name, v, 0)
  \/ \E name \in WindowNames : GetMetricStats(name)

InitWindowSpec ==
  /\ LoadedSafety({"production"})
  /\ InitRegistry
  /\ obsConfig = DEFAULT_CONFIG
  /\ engine \in {EmptyEngine, Recorded("task.count", <<3>>), FullWindow}
  /\ storageFull = FALSE
  /\ obsCall = [fn |-> "none", id |-> <<0, 0>>, found |-> "absent", at |-> 0]
  /\ spans = <<>>
  /\ retired = <<>>
  /\ InitStore

SpecWindow == InitWindowSpec /\ [][NextWindow]_vars

\* the values recorded under a name, in recording order
ValuesRecorded(metrics, name) ==
  LET ms == SelectSeq(metrics, LAMBDA m : m.name = name)
  IN [i \in 1..Len(ms) |-> ms[i].value]

Least(values) ==
  CHOOSE x \in {values[i] : i \in DOMAIN values} : \A i \in DOMAIN values : x <= values[i]
Greatest(values) ==
  CHOOSE x \in {values[i] : i \in DOMAIN values} : \A i \in DOMAIN values : x >= values[i]

\* C21: after n values were recorded under a name, the window of that name
\* holds the most recent min(n, 1000) of them in recording order, and
\* getMetricStats reports a count of at most 1000 and the minimum, maximum
\* and mean of exactly those values.
C21_RollingWindow ==
  /\ \A i \in 1..Len(engine.metrics) : engine.metrics[i].name \in DOMAIN engine.metricAggregates
  /\ \A name \in DOMAIN engine.metricAggregates :
       engine.metricAggregates[name] =
         LastN(ValuesRecorded(engine.metrics, name), AggregateLimit)
  /\ obsCall.fn = "getMetricStats" =>
       LET recent == LastN(ValuesRecorded(engine.metrics, obsCall.name), AggregateLimit)
       IN IF recent = <<>> THEN obsCall.stats = Null
          ELSE /\ obsCall.stats.v.count = Len(recent)
               /\ obsCall.stats.v.count <= AggregateLimit
               /\ obsCall.stats.v.min.v = Least(recent)
               /\ obsCall.stats.v.max.v = Greatest(recent)
               /\ obsCall.stats.v.mean = [sum |-> SumOf(recent, 1, Len(recent)),
                                          count |-> Len(recent)]

\* more than the limit was recorded under task.count: the oldest value left
\* the window, and the statistics are those of the 1000 values kept
C21_Witness ==
  /\ Len(ValuesRecorded(engine.metrics, "task.count")) > AggregateLimit
  /\ Len(engine.metricAggregates["task.count"]) = AggregateLimit
  /\ engine.metricAggregates["task.count"][1] = 2
  /\ engine.metricAggregates["task.count"][AggregateLimit] = 2000
  /\ obsCall.fn = "getMetricStats"
  /\ obsCall.name = "task.count"
  /\ obsCall.stats.v.count = AggregateLimit
  /\ obsCall.stats.v.min.v = 2
  /\ obsCall.stats.v.max.v = 2000

(***************************************************************************)
(* Counters: increment and decrement of one name under several tag sets,   *)
(* one of which extends another, and under none.                           *)
(***************************************************************************)
CounterTags ==
  {NoTags, << <<"list", "a">> >>, << <<"list", "b">> >>,
   << <<"list", "a">>, <<"kind", "todo">> >>}

CounterCall(fn, name, tags, at) == [fn |-> fn, name |-> name, tags |-> tags, at |-> at]

\* obs.increment(name, tags)
Increment(name, tags, r) ==
  /\ HasRoom(engine)
  /\ engine' = IncrementOn(engine, obsConfig, name, tags, DateNow(now), r, storageFull)
  /\ obsCall' = CounterCall("increment", name, tags, DateNow(now))
  /\ UNCHANGED <<safetyVars, registryVars, now, obsConfig, storageFull,
                 spans, retired, storeVars>>

\* obs.decrement(name, tags)
Decrement(name, tags, r) ==
  /\ HasRoom(engine)
  /\ engine' = DecrementOn(engine, obsConfig, name, tags, DateNow(now), r, storageFull)
  /\ obsCall' = CounterCall("decrement", name, tags, DateNow(now))
  /\ UNCHANGED <<safetyVars, registryVars, now, obsConfig, storageFull,
                 spans, retired, storeVars>>

NextCounter ==
  \/ \E tags \in CounterTags : Increment("task.count", tags, 0)
  \/ \E tags \in CounterTags : Decrement("task.count", tags, 0)
  \/ ObsTick

SpecCounter == InitTeardownSpec /\ [][NextCounter]_vars

\* the value last recorded for exactly this (name, tags) pair, 0 without one
OwnLatest(metrics, name, tags) ==
  LET own == SelectSeq(metrics, LAMBDA m :
               m.name = name /\ TagsMatch(m.tags, tags) /\ TagsMatch(tags, m.tags))
  IN IF own = <<>> THEN 0 ELSE own[Len(own)].value

\* C22: increment(name, tags) records the latest value recorded for that same
\* (name, tags) pair plus 1 and decrement that value minus 1, 0 standing for
\* a pair without a metric; metrics of the name under another tag set (a
\* superset, or any tags when the call passes none) do not influence it.
C22_CountsItsOwnPair ==
  [][(obsCall'.fn \in {"increment", "decrement"}
        /\ Len(engine'.metrics) = Len(engine.metrics) + 1)
     => engine'.metrics[Len(engine'.metrics)].value
          = OwnLatest(engine.metrics, obsCall'.name, obsCall'.tags)
            + (IF obsCall'.fn = "increment" THEN 1 ELSE -1)]_vars

(***************************************************************************)
(* C23: error() and the error.count metric                                 *)
(***************************************************************************)
ErrorTags == << <<"level", "error">> >>

\* a call of error() that changed the engine
ErrorStep == obsCall'.fn = "error" /\ engine' # engine

\* C23 as stated: each call of error() appends one error-level log entry and
\* records an error.count metric, tagged level=error, whose value is one more
\* than the latest error.count value recorded before it (0 without one), so
\* that the latest value counts the calls.
C23_ErrorCountIncrements ==
  [][ErrorStep
     => /\ engine'.logs = Append(engine.logs, LogEntry("error", "message", DateNow(now)))
        /\ Len(engine'.metrics) = Len(engine.metrics) + 1
        /\ engine'.metrics[Len(engine'.metrics)].name = "error.count"
        /\ engine'.metrics[Len(engine'.metrics)].tags = ErrorTags
        /\ engine'.metrics[Len(engine'.metrics)].value
             = OrZero(GetLatestMetric(engine.metrics, "error.count", ErrorTags)) + 1]_vars

\* C23, amended: with logging and metrics enabled each call of error()
\* appends one error-level log entry and one error.count metric of value 1
\* tagged level=error, whatever was recorded before: the latest error.count
\* value is 1 after every call, and the calls are counted by the number of
\* these metrics.
C23_ErrorCountIsOne ==
  [][(ErrorStep /\ obsConfig.enableLogging /\ obsConfig.enableMetrics)
     => /\ engine'.logs = Append(engine.logs, LogEntry("error", "message", DateNow(now)))
        /\ engine'.metrics
             = Append(engine.metrics, Metric("error.count", 1, DateNow(now), ErrorTags, ""))
        /\ GetLatestMetric(engine'.metrics, "error.count", ErrorTags)
             = [k |-> "number", v |-> 1]
        /\ engine'.alerts = engine.alerts]_vars

\* error() was called twice: two error-level log entries and two error.count
\* metrics, each of value 1
C23_Witness ==
  /\ obsCall.fn = "error"
  /\ Len(SelectSeq(engine.logs, LAMBDA l : l.level = "error")) = 2
  /\ ValuesRecorded(engine.metrics, "error.count") = <<1, 1>>

(***************************************************************************)
(* The document write path with the calls it makes on the engine           *)
(* (documentStore.ts:134-200).  saveDocument is wrapped by traced(), which *)
(* starts a span of its own and ends it when the promise settles; the      *)
(* handler starts a second span.  Each action is the handler with its      *)
(* engine calls, in the order the code makes them; the reactions of the    *)
(* wrapper run as soon as the handler's promise settles and belong to the  *)
(* same action.                                                            *)
(***************************************************************************)
\* the most saveDocument calls
MaxSaves == 2

SaveOperation == "documentStore.saveDocument"

\* the engine and the Span objects handed out
Tracer(o, objects) == [o |-> o, spans |-> objects]

\* obs.startSpan(operation), the span becoming object Len(spans) + 1
Started(tr, cfg, operation, t, r, rs) ==
  Tracer(StartSpanOn(tr.o, cfg,
                     StartedSpan(tr.o, cfg, tr.spans, operation, NoId, t, r, rs),
                     Len(tr.spans) + 1),
         Append(tr.spans, StartedSpan(tr.o, cfg, tr.spans, operation, NoId, t, r, rs)))

\* obs.endSpan(span, error) for the span object i
EndedAt(tr, cfg, i, failed, t, full) ==
  Tracer(EndSpanOn(tr.o, cfg, Ended(cfg, tr.spans[i], failed, t), failed, t, 0, full),
         [tr.spans EXCEPT ![i] = Ended(cfg, @, failed, t)])

\* obs.error(message)
Errored(tr, cfg, t, full) == Tracer(ErrorOn(tr.o, cfg, "message", t, 0, full), tr.spans)

\* obs.recordMetric(name, 1)
Counted(tr, cfg, name, t, full) ==
  Tracer(RecordMetricOn(tr.o, cfg, Metric(name, 1, t, NoTags, ""), 0, full), tr.spans)

\* the rejection of the handler reaches the wrapper: endSpan(span, error) and
\* obs.error for the wrapper's span w
WrapperCaught(tr, cfg, w, t, full) ==
  Errored(EndedAt(tr, cfg, w, TRUE, t, full), cfg, t, full)

\* the catch of saveDocument, s being the handler's span, and the wrapper's
\* reaction to the rethrown error
HandlerCaught(tr, cfg, w, s, t, full) ==
  WrapperCaught(Errored(EndedAt(tr, cfg, s, TRUE, t, full), cfg, t, full), cfg, w, t, full)

\* a blocked or schema-invalid save: obs.error, endSpan(span) and the throw,
\* which the catch of the same handler receives
Refused(tr, cfg, w, s, t, full) ==
  HandlerCaught(EndedAt(Errored(tr, cfg, t, full), cfg, s, FALSE, t, full),
                cfg, w, s, t, full)

\* the engine calls of saveDocument up to its await, or to its end when it
\* throws before: the two spans are objects Len(spans) + 1 and Len(spans) + 2
SaveDocumentCalls(tr, cfg, safetyEnabled, outcome, t, full) ==
  IF outcome = "written"
  THEN IF safetyEnabled
       THEN Counted(Started(Started(tr, cfg, SaveOperation, t, 0, 0),
                            cfg, SaveOperation, t, 1, 1),
                    cfg, "document.validation_passed", t, full)
       ELSE Started(Started(tr, cfg, SaveOperation, t, 0, 0), cfg, SaveOperation, t, 1, 1)
  ELSE Refused(Started(Started(tr, cfg, SaveOperation, t, 0, 0),
                       cfg, SaveOperation, t, 1, 1),
               cfg, Len(tr.spans) + 1, Len(tr.spans) + 2, t, full)

\* the spans not ended yet, oldest first: those of the calls that await
OpenSpans(objects) ==
  SelectSeq([i \in 1..Len(objects) |-> i], LAMBDA i : objects[i].endTime = NoTime)

\* the engine calls of saveDocument after its await resolved, and the
\* wrapper's reaction: spans w and s
ResolvedCalls(tr, cfg, w, s, t, full) ==
  EndedAt(EndedAt(Counted(tr, cfg, "document.saved", t, full), cfg, s, FALSE, t, full),
          cfg, w, FALSE, t, full)

WriteCall(fn, at) == [fn |-> fn, at |-> at]

\* useDocumentStore.saveDocument(document), up to the await
SaveDocumentObserved(document, gate) ==
  /\ Len(inflight) < MaxInflight
  /\ Len(spans) \div 2 < MaxSaves
  /\ SaveDocumentWrites(document, gate)
  /\ engine' = SaveDocumentCalls(Tracer(engine, spans), obsConfig, docStore.safetyEnabled,
                                 gate.outcome, DateNow(now), storageFull).o
  /\ spans' = SaveDocumentCalls(Tracer(engine, spans), obsConfig, docStore.safetyEnabled,
                                gate.outcome, DateNow(now), storageFull).spans
  /\ obsCall' = WriteCall("saveDocument", DateNow(now))
  /\ UNCHANGED <<obsConfig, storageFull, retired>>

TracedSaveDocument(document) ==
  SaveDocumentObserved(document,
                       Gated(docStore.safetyEnabled,
                             PerformSafetyCheck("saveDocument", document, config,
                                                lastIndex),
                             RegistryValidate(DocumentStoreContracts, "document",
                                              document, now),
                             lastIndex))

\* db.put resolves: the rest of saveDocument, then the wrapper
TracedPutDocument ==
  /\ PutDocumentWrites
  /\ engine' = ResolvedCalls(Tracer(engine, spans), obsConfig, OpenSpans(spans)[1],
                             OpenSpans(spans)[2], DateNow(now), storageFull).o
  /\ spans' = ResolvedCalls(Tracer(engine, spans), obsConfig, OpenSpans(spans)[1],
                            OpenSpans(spans)[2], DateNow(now), storageFull).spans
  /\ obsCall' = WriteCall("put", DateNow(now))
  /\ UNCHANGED <<obsConfig, storageFull, retired>>

\* db.put rejects: the catch of saveDocument, then the wrapper
TracedPutDocumentFails ==
  /\ PutDocumentFailsWrites
  /\ engine' = HandlerCaught(Tracer(engine, spans), obsConfig, OpenSpans(spans)[1],
                             OpenSpans(spans)[2], DateNow(now), storageFull).o
  /\ spans' = HandlerCaught(Tracer(engine, spans), obsConfig, OpenSpans(spans)[1],
                            OpenSpans(spans)[2], DateNow(now), storageFull).spans
  /\ obsCall' = WriteCall("put", DateNow(now))
  /\ UNCHANGED <<obsConfig, storageFull, retired>>

NextWritePath ==
  \/ \E document \in EditedDocuments : TracedSaveDocument(document)
  \/ TracedPutDocument
  \/ TracedPutDocumentFails
  \/ \E enabled \in BOOLEAN : SetDocumentSafety(enabled)
  \/ ObsTick

SpecWritePath == InitStoreSpec /\ [][NextWritePath]_vars

\* the spans that carry the stamps of a completion
EndedSpans(objects) == {i \in 1..Len(objects) : objects[i].endTime # NoTime}

\* C24: a span's endTime, duration and status are set exactly once, at
\* completion: no operation changes them on a span already ended, and each
\* span the write path ends gets one completion metric (span.duration or
\* span.errors), on every path: saved, blocked by the safety check,
\* schema-invalid, or failed with an exception.
C24_EndedExactlyOnce ==
  [][/\ \A i \in EndedSpans(spans) : spans'[i] = spans[i]
     /\ Len(CompletionMetrics(engine'.metrics))
          = Len(CompletionMetrics(engine.metrics))
            + Cardinality(EndedSpans(spans') \ EndedSpans(spans))]_vars

(***************************************************************************)
(* Lineage: spans started without a parent, under the id of a span the     *)
(* engine lists, or under an id it does not know, with reset() in between. *)
(* generateTraceId and generateSpanId draw ids no span was given before.   *)
(***************************************************************************)
\* the most spans of a lineage
MaxLineage == 3

LineageRandoms == 0..MaxLineage
\* a parentSpanId no span was given
UnknownSpanId == SpanId(MaxLineage + 1)

SpanIds(objects) == {objects[i].spanId : i \in 1..Len(objects)}
TraceIds(objects) == {objects[i].traceId : i \in 1..Len(objects)}

NextLineage ==
  \/ \E parentSpanId \in {NoId, UnknownSpanId} \cup (SpanIds(spans) \ {NoId}),
        r \in LineageRandoms, rs \in LineageRandoms :
       /\ Len(spans) < MaxLineage
       /\ TraceId(DateNow(now), r) \notin TraceIds(spans)
       /\ SpanId(rs) \notin SpanIds(spans)
       /\ \A q \in LineageRandoms :
            /\ q < r => TraceId(DateNow(now), q) \in TraceIds(spans)
            /\ q < rs => SpanId(q) \in SpanIds(spans)
       /\ StartSpanCalled("save", parentSpanId, r, rs)
  \/ Reset
  \/ ObsTick

SpecLineage == InitTraceSpec /\ [][NextLineage]_vars

\* the traces that list a span with the id
TracesListing(traces, objects, spanId) ==
  {k \in 1..Len(traces) :
     \E j \in 1..Len(traces[k].spans) : objects[traces[k].spans[j]].spanId = spanId}

\* getTrace(t) returns spans of trace t only
TraceHoldsItsSpans(traces, objects) ==
  \A k \in 1..Len(traces) : \A j \in 1..Len(traces[k].spans) :
    objects[traces[k].spans[j]].traceId = traces[k].traceId

\* a listed span whose parent is listed shares the parent's traceId
ChildSharesTrace(traces, objects) ==
  \A k \in 1..Len(traces) : \A j \in 1..Len(traces[k].spans) :
    LET child == objects[traces[k].spans[j]]
    IN \A h \in TracesListing(traces, objects, child.parentSpanId) :
         traces[h].traceId = child.traceId

\* the step is startSpan under tracing
StartsSpan ==
  /\ obsCall'.fn = "startSpan"
  /\ Len(spans') = Len(spans) + 1
  /\ obsConfig.enableTracing

\* C25: with tracing enabled startSpan(op, parentSpanId) gives the new span
\* the traceId of the trace that lists a span with that id and appends it to
\* that trace; it starts a new trace when no listed span has the id or no
\* parent is given.  Every span of getTrace(t) has traceId t, and a child
\* shares the traceId of its parent, hence of its root.
C25_ChildJoinsParentTrace ==
  [][/\ StartsSpan =>
          LET new == spans'[Len(spans')]
              holders == TracesListing(engine.traces, spans, new.parentSpanId)
          IN IF new.parentSpanId # NoId /\ holders # {}
             THEN \E k \in holders :
                    /\ new.traceId = engine.traces[k].traceId
                    /\ engine'.traces =
                         [engine.traces EXCEPT ![k].spans = Append(@, Len(spans'))]
             ELSE /\ \A k \in 1..Len(engine.traces) :
                       engine.traces[k].traceId # new.traceId
                  /\ engine'.traces =
                       Append(engine.traces,
                              [traceId |-> new.traceId, spans |-> <<Len(spans')>>])
     /\ TraceHoldsItsSpans(engine'.traces, spans')
     /\ ChildSharesTrace(engine'.traces, spans')]_vars

\* a root, its child and its grandchild in one trace, next to no other trace
C25_Witness ==
  /\ Len(spans) = 3
  /\ spans[1].parentSpanId = NoId
  /\ spans[2].parentSpanId = spans[1].spanId
  /\ spans[3].parentSpanId = spans[2].spanId
  /\ spans[3].startTime > spans[1].startTime
  /\ spans[3].traceId = spans[1].traceId
  /\ engine.traces = << [traceId |-> spans[1].traceId, spans |-> <<1, 2, 3>>] >>

(***************************************************************************)
(* Alerts of every severity, raised and resolved, on engines with the      *)
(* default configuration or with logging, metrics or alerts switched off.  *)
(***************************************************************************)
Severities == {"critical", "error", "warning", "info"}

NextAlerts ==
  \/ \E severity \in Severities : CreateAlert(severity, "security", 0)
  \/ \E id \in AlertIds \cup {UnknownId} : ResolveAlert(id)
  \/ ObsTick

InitAlertsSpec ==
  /\ LoadedSafety({"production"})
  /\ InitRegistry
  /\ \E cfg \in {DEFAULT_CONFIG, [DEFAULT_CONFIG EXCEPT !.enableLogging = FALSE],
                 [DEFAULT_CONFIG EXCEPT !.enableMetrics = FALSE],
                 [DEFAULT_CONFIG EXCEPT !.enableAlerts = FALSE]} :
       BuiltEngine(cfg, FALSE)
  /\ InitStore

SpecAlerts == InitAlertsSpec /\ [][NextAlerts]_vars

\* the step is createAlert with alerts and logging enabled
CreatesAlert ==
  /\ obsCall'.fn = "createAlert"
  /\ engine' # engine
  /\ obsConfig.enableAlerts /\ obsConfig.enableLogging

\* C26: with alerts and logging enabled createAlert appends exactly one new
\* unresolved alert and writes exactly one log entry for it, at level error
\* for the severities critical and error and at level warn for warning and
\* info; the alerts already stored are not modified.
C26_OneAlertOneLogEntry ==
  [][CreatesAlert =>
       /\ Len(engine'.alerts) = Len(engine.alerts) + 1
       /\ SubSeq(engine'.alerts, 1, Len(engine.alerts)) = engine.alerts
       /\ engine'.alerts[Len(engine'.alerts)].id = obsCall'.id
       /\ ~engine'.alerts[Len(engine'.alerts)].resolved
       /\ engine'.alerts[Len(engine'.alerts)].resolvedAt = NoTime
       /\ Len(engine'.logs) = Len(engine.logs) + 1
       /\ SubSeq(engine'.logs, 1, Len(engine.logs)) = engine.logs
       /\ engine'.logs[Len(engine'.logs)].timestamp = obsCall'.at
       /\ engine'.logs[Len(engine'.logs)].level =
            (IF engine'.alerts[Len(engine'.alerts)].severity \in {"critical", "error"}
             THEN "error" ELSE "warn")]_vars

\* an info alert was raised after a critical one that is resolved by now:
\* two alerts, an error entry and then a warn entry in the log
C26_Witness ==
  /\ obsCall.fn = "createAlert"
  /\ obsConfig.enableAlerts /\ obsConfig.enableLogging
  /\ Len(engine.alerts) = 2
  /\ engine.alerts[1].severity = "critical" /\ engine.alerts[1].resolved
  /\ engine.alerts[2].severity = "info" /\ ~engine.alerts[2].resolved
  /\ Len(engine.logs) = 2
  /\ engine.logs[1].level = "error"
  /\ engine.logs[2].level = "warn"

(***************************************************************************)
(* Retention: an engine built on the snapshot an earlier session left a    *)
(* month ago, or on none, then sweeps between the foreground operations    *)
(* while the clock moves.  The entries of the snapshot lie one second      *)
(* inside their windows, or at their edge, when the model starts.          *)
(***************************************************************************)
SecondsPerDay == 24 * 60 * 60

\* loadFromStorage(): the collections a new engine takes from the item
LoadedEngine(item) ==
  IF item.present
  THEN [EmptyEngine EXCEPT !.metrics = item.metrics, !.logs = item.logs,
                           !.alerts = item.alerts, !.storage = item]
  ELSE EmptyEngine

\* the item of a session that recorded a metric and a log entry, raised two
\* alerts and resolved the first a day later
AgedItem ==
  LET monthAgo == DateNow(0) - DEFAULT_CONFIG.metricRetentionDays * SecondsPerDay
      weekAgo == DateNow(0) - DEFAULT_CONFIG.logRetentionDays * SecondsPerDay
  IN [present |-> TRUE,
      metrics |-> <<Metric("task.count", 1, monthAgo + 1, NoTags, "")>>,
      logs |-> <<LogEntry("info", "message", weekAgo + 1)>>,
      alerts |-> <<Resolved(Alert(AlertId(monthAgo - SecondsPerDay, 0), "critical",
                                  "Alert", monthAgo - SecondsPerDay, "security"),
                            monthAgo + 1),
                   Alert(AlertId(monthAgo, 0), "warning", "Alert", monthAgo,
                         "security")>>]

NextRetention ==
  \/ Cleanup
  \/ RecordMetric("task.count", 1, 0)
  \/ \E level \in LogLevels : Log(level)
  \/ CreateAlert("critical", "security", 0)
  \/ \E id \in StoredIds(engine.alerts) \cup {UnknownId} : ResolveAlert(id)
  \/ ObsTick

InitRetentionSpec ==
  /\ LoadedSafety({"production"})
  /\ InitRegistry
  /\ obsConfig = DEFAULT_CONFIG
  /\ engine \in {EmptyEngine, LoadedEngine(AgedItem)}
  /\ storageFull = FALSE
  /\ obsCall = [fn |-> "none", id |-> <<0, 0>>, found |-> "absent", at |-> 0]
  /\ spans = <<>>
  /\ retired = <<>>
  /\ InitStore

SpecRetention == InitRetentionSpec /\ [][NextRetention]_vars

\* the step is a retention sweep
Sweeps == obsCall'.fn = "cleanup" /\ obsCall'.at = DateNow(now) /\ now' = now

\* a timestamp lies inside a window of that many days at the time of the step
InWindow(timestamp, days) == timestamp > DateNow(now) - days * SecondsPerDay

\* C27: after a retention sweep at time now exactly these entries remain, in
\* their original order: metrics with timestamp > now - metricRetention, logs
\* with timestamp > now - logRetention, resolved alerts with
\* resolvedAt > now - metricRetention and unresolved alerts with
\* timestamp > now - metricRetention; the foreground operations before and
\* after a sweep remove no entry.
C27_SweepKeepsExactlyTheWindows ==
  [][IF Sweeps
     THEN /\ engine'.metrics =
               SelectSeq(engine.metrics, LAMBDA m :
                 InWindow(m.timestamp, obsConfig.metricRetentionDays))
          /\ engine'.logs =
               SelectSeq(engine.logs, LAMBDA l :
                 InWindow(l.timestamp, obsConfig.logRetentionDays))
          /\ engine'.alerts =
               SelectSeq(engine.alerts, LAMBDA a :
                 InWindow(IF a.resolved THEN a.resolvedAt ELSE a.timestamp,
                          obsConfig.metricRetentionDays))
     ELSE /\ SubSeq(engine'.metrics, 1, Len(engine.metrics)) = engine.metrics
          /\ SubSeq(engine'.logs, 1, Len(engine.logs)) = engine.logs
          /\ Len(engine'.alerts) >= Len(engine.alerts)
          /\ \A i \in 1..Len(engine.alerts) :
               /\ engine'.alerts[i].id = engine.alerts[i].id
               /\ engine'.alerts[i].timestamp = engine.alerts[i].timestamp]_vars

\* a sweep one second into the model purged the metric, the log entry and the
\* first alert of the old session; the second alert, raised before the window
\* and resolved just now, was kept, after a metric recorded in this session
C27_Witness ==
  /\ obsCall.fn = "cleanup"
  /\ obsCall.at = DateNow(1)
  /\ engine.logs = <<>>
  /\ Len(engine.metrics) = 1
  /\ engine.metrics[1].timestamp >= DateNow(0)
  /\ Len(engine.alerts) = 1
  /\ engine.alerts[1].resolved
  /\ engine.alerts[1].timestamp
       = DateNow(0) - obsConfig.metricRetentionDays * SecondsPerDay
  /\ engine.alerts[1].resolvedAt >= DateNow(0)

(***************************************************************************)
(* C28: what a sweep leaves of spans and rolling windows                   *)
(***************************************************************************)
\* no trace lists a span that started outside the retention window
TracesInWindow(traces, objects, days) ==
  \A k \in 1..Len(traces) : \A j \in 1..Len(traces[k].spans) :
    InWindow(objects[traces[k].spans[j]].startTime, days)

\* the rolling windows hold values of metrics the engine still has, and no
\* others
WindowsOfKeptMetrics(o) ==
  \A name \in DOMAIN o.metricAggregates :
    o.metricAggregates[name] = LastN(ValuesRecorded(o.metrics, name), AggregateLimit)

\* C28: every kind of entity, spans included, is retained only for its
\* window: after a retention sweep no trace of getTrace holds a span older
\* than the retention window, and the per-name values getMetricStats reads
\* contain no value of a metric the sweep purged.
C28_NothingOutlivesItsWindow ==
  [][(Sweeps /\ storageFull' = storageFull)
     => /\ TracesInWindow(engine'.traces, spans', obsConfig.metricRetentionDays)
        /\ WindowsOfKeptMetrics(engine')]_vars

(***************************************************************************)
(* Thresholds: metrics recorded under a name for each rule of              *)
(* checkMetricThresholds, under the name createAlert records itself, and   *)
(* under one no rule reads, with values on both sides of the thresholds.   *)
(***************************************************************************)
ThresholdNames ==
  {"save.duration", "api.latency", "placeholder.count", "data_quality.score",
   "alert.count", "task.count"}
ThresholdValues == {0, 50, 1500}

NextThresholds ==
  \/ \E name \in ThresholdNames, v \in ThresholdValues : RecordMetric(name, v, 0)
  \/ ObsTick

SpecThresholds == InitMetricsSpec /\ [][NextThresholds]_vars

\* the log entries a step appended
NewLogEntries == SubSeq(engine'.logs, Len(engine.logs) + 1, Len(engine'.logs))

\* C29: every recordMetric call ends having appended at most one alert: the
\* alert.count metric createAlert records re-enters recordMetric and matches
\* no rule, so the call records its own metric and, with an alert, one
\* alert.count metric and one log entry, and nothing beyond.
C29_AtMostOneAlert ==
  [][(obsCall'.fn = "recordMetric" /\ engine' # engine)
     => /\ Len(NewAlerts) <= 1
        /\ Len(NewMetrics) = 1 + Len(NewAlerts)
        /\ Len(NewLogEntries) = Len(NewAlerts)
        /\ Len(NewAlerts) = 1 =>
             /\ NewMetrics[2].name = "alert.count"
             /\ NewMetrics[2].value = 1
             /\ NewMetrics[1].name # "alert.count"
        /\ SubSeq(engine'.alerts, 1, Len(engine.alerts)) = engine.alerts]_vars

\* a placeholder.count metric raised an alert, after an alert.count metric
\* recorded by the caller raised none: one alert, three metrics
C29_Witness ==
  /\ obsCall.fn = "recordMetric"
  /\ Len(engine.alerts) = 1
  /\ engine.alerts[1].category = "placeholder"
  /\ Len(engine.metrics) = 3
  /\ engine.metrics[1].name = "alert.count" /\ engine.metrics[1].value = 1500
  /\ engine.metrics[2].name = "placeholder.count"
  /\ engine.metrics[3].name = "alert.count" /\ engine.metrics[3].value = 1

(***************************************************************************)
(* The gate in and out of production: performSafetyCheck under every       *)
(* configuration of development, test, production, stage and qa, on data   *)
(* made of placeholder tokens and on records that break the contract       *)
(* registered for them.                                                    *)
(***************************************************************************)
GateEnvironments == {"development", "test", "production", "stage", "qa"}

GateConfigs ==
  [environment : GateEnvironments, blockPlaceholders : BOOLEAN,
   requireDataContracts : BOOLEAN, enableObservability : BOOLEAN]

GateData ==
  {Undefined, Str(S_TBD), TitleRecord(S_TBD), TitleRecord(S_Report),
   Arr(<<Str(S_TBD)>>)}

NextGate ==
  \/ \E op \in Operations, d \in GateData : CallPerformSafetyCheck(op, d)
  \/ \E cfg \in GateConfigs : UpdateConfig(cfg)
  \/ \E c \in {"TitleContract", "TaskContract"} : Register("task", c)

InitGateSpec ==
  /\ LoadedSafety(GateEnvironments)
  /\ InitRegistry
  /\ InitObs
  /\ InitStore

SpecGate == InitGateSpec /\ [][NextGate]_vars

\* C30: when the environment is none of production, prod, staging, stage and
\* qa, or blockPlaceholders is false, or no data is passed, performSafetyCheck
\* returns isSafe = true with no blocked action and no recommendation,
\* whatever the operation and the data.
C30_GateInactiveNeverBlocks ==
  (/\ lastCall.fn = "performSafetyCheck"
   /\ \/ config.environment \notin {"production", "prod", "staging", "stage", "qa"}
      \/ ~config.blockPlaceholders
      \/ lastCall.data = Undefined)
  => /\ lastCall.safety.isSafe
     /\ lastCall.safety.blockedActions = <<>>
     /\ lastCall.safety.recommendations = <<>>

\* in development with the default flags, a record made of a placeholder token
\* that breaks the TaskContract registered for tasks passed the gate, which
\* blocks it in production
C30_Witness ==
  /\ lastCall.fn = "performSafetyCheck"
  /\ config = DefaultConfig("development")
  /\ "task" \in DOMAIN contracts
  /\ lastCall.data = TitleRecord(S_TBD)
  /\ ~ValidateContract(ContractNamed(contracts["task"].contract),
                       lastCall.data, now).isValid
  /\ ~PerformSafetyCheck(lastCall.operation, lastCall.data,
                         DefaultConfig("production"), lastCall.li).result.isSafe
  /\ lastCall.safety.isSafe
  /\ Len(lastCall.safety.checks) = 3

=============================================================================
